---------------------------- MODULE Spec2Model ----------------------------
(***************************************************************************)
(* State-machine model of the play-detection tracker of HoopNarrator       *)
(* (backend/app/analysis/play_detector.py): PlayerState, BallState and     *)
(* PlayDetector (update_frame, _detect_plays, _record_play,                *)
(* get_recent_plays).                                                      *)
(*                                                                         *)
(* Number representation.  Coordinates are integers; the input boxes are   *)
(* chosen with even side sums so that the centre (x1+x2)/2 is an integer.   *)
(* A Euclidean norm is kept as the integer under the root, [sqrt |-> n];   *)
(* a speed distance/dt as [sqrt |-> n, dt |-> d]; a quotient a/b as        *)
(* [num |-> a, den |-> b].  Comparisons of such values with the program's  *)
(* thresholds are made exactly, by squaring or cross-multiplying.           *)
(***************************************************************************)
EXTENDS Integers, Sequences, FiniteSets, TLC

VARIABLES
    court_dimensions, \* PlayDetector.court_dimensions, as given at construction
    players,        \* PlayDetector.players: identifier -> PlayerState
    ball,           \* PlayDetector.ball: BallState
    frame_idx,      \* PlayDetector.frame_idx
    play_history,   \* PlayDetector.play_history
    op,             \* the last call made on the detector
    inputs,         \* the detection lists of all update_frame calls so far
    raised,         \* TRUE iff the last update_frame call raised an exception
    loop_states,    \* players and ball on entry to the detection loop of the last
                    \* update_frame call and after each detection it processed
    window,         \* argument of the last get_recent_plays call
    result,         \* value returned by the last get_recent_plays call
    processing_status, \* videos.py: processing_status, video_id -> status dict
    tasks           \* the process_video_background task of each video: where it
                    \* is, how it ended, what the pipeline returned and the
                    \* status updates it has made

vars == <<court_dimensions, players, ball, frame_idx, play_history, op, inputs, raised,
          loop_states, window, result, processing_status, tasks>>

-----------------------------------------------------------------------------
(* Python's Optional values: None is the empty tuple and a present value x *)
(* of holder_id is the one-element tuple Some(x); a position is its own    *)
(* pair.  A detection is a record whose DOMAIN is the set of keys of the   *)
(* Python dict.                                                            *)
None == <<>>
Some(x) == <<x>>

(* Program constants.                                                      *)
POSITION_MAXLEN == 30
SPEED_MAXLEN == 10
BALL_POSITION_MAXLEN == 30
FPS == 30
\* court_dimensions['length_ft'] = 94.0: the hoop reference is (94/2, 0)
LENGTH_FT == 94
\* three_point_line_ft = 23.75 = 95/4
THREE_POINT_NUM == 95
THREE_POINT_DEN == 4
\* DUNK_JUMP_HEIGHT = 1.5 = 3/2
DUNK_NUM == 3
DUNK_DEN == 2
\* confidence = 0.9 = 9/10
CONFIDENCE_NUM == 9
CONFIDENCE_DEN == 10
\* in-air displacement threshold 5.0
IN_AIR_DISTANCE == 5
\* jump thresholds: dy < -2, dy > 2, abs(dy) < 1
JUMP_MOVE == 2
JUMP_STILL == 1
\* layup: len(position_history) > 5; block: len(shot_arc) > 3, len(arc) > 5, dy < -5
LAYUP_MIN_SAMPLES == 5
ARC_MIN_POINTS == 3
BLOCK_MIN_POINTS == 5
BLOCK_DY == 5

-----------------------------------------------------------------------------
Abs(n) == IF n < 0 THEN -n ELSE n

\* squared Euclidean distance of two positions (np.linalg.norm(a - b) squared)
Dist2(p, q) == (p[1] - q[1]) * (p[1] - q[1]) + (p[2] - q[2]) * (p[2] - q[2])

\* deque(maxlen=n).append(x): drops the oldest entry when full
\* append to a list without maxlen
ListAppend(d, x, maxlen) == Append(d, x)

\* deque(maxlen = maxlen).append(x)
DequeAppend(d, x, maxlen) ==
    IF Len(d) >= maxlen THEN Append(Tail(d), x) ELSE Append(d, x)

Last(s) == s[Len(s)]

\* centre of a bounding box <<x1, y1, x2, y2>>
Center(bbox) == <<(bbox[1] + bbox[3]) \div 2, (bbox[2] + bbox[4]) \div 2>>

-----------------------------------------------------------------------------
(* PlayerState                                                             *)

PlayerState(player_id) ==
    [player_id        |-> player_id,
     position_history |-> <<>>,
     speed_history    |-> <<>>,
     current_speed    |-> [sqrt |-> 0, dt |-> 1],
     has_ball         |-> FALSE,
     jump_state       |-> "grounded",
     jump_height      |-> 0]

\* lines 46-59 with the delta that starts the ascent counted into the height
jump_step_counting_first(p, dy) ==
    IF dy < -JUMP_MOVE THEN
       IF p.jump_state # "ascending"
       THEN [p EXCEPT !.jump_state = "ascending", !.jump_height = Abs(dy)]
       ELSE [p EXCEPT !.jump_height = @ + Abs(dy)]
    ELSE IF dy > JUMP_MOVE THEN
       IF p.jump_state \in {"ascending", "peak"}
       THEN [p EXCEPT !.jump_state = "descending"]
       ELSE p
    ELSE IF p.jump_state = "ascending" /\ Abs(dy) < JUMP_STILL
       THEN [p EXCEPT !.jump_state = "peak"]
    ELSE IF p.jump_state = "descending" /\ Abs(dy) < JUMP_STILL
       THEN [p EXCEPT !.jump_state = "grounded", !.jump_height = 0]
    ELSE p

\* lines 46-59 of _update_jump_state, for the vertical change dy
jump_step(p, dy) ==
    IF dy < -JUMP_MOVE THEN
       IF p.jump_state # "ascending"
       THEN [p EXCEPT !.jump_state = "ascending", !.jump_height = 0]
       ELSE [p EXCEPT !.jump_height = @ + Abs(dy)]
    ELSE IF dy > JUMP_MOVE THEN
       IF p.jump_state \in {"ascending", "peak"}
       THEN [p EXCEPT !.jump_state = "descending"]
       ELSE p
    ELSE IF p.jump_state = "ascending" /\ Abs(dy) < JUMP_STILL
       THEN [p EXCEPT !.jump_state = "peak"]
    ELSE IF p.jump_state = "descending" /\ Abs(dy) < JUMP_STILL
       THEN [p EXCEPT !.jump_state = "grounded", !.jump_height = 0]
    ELSE p

\* lines 40-44: dy of the last two samples
vertical_change(p) ==
    p.position_history[Len(p.position_history)][1][2]
       - p.position_history[Len(p.position_history) - 1][1][2]

\* _update_jump_state in which only a grounded player starts to ascend
update_jump_state_from_ground(p) ==
    IF Len(p.position_history) < 2 THEN p
    ELSE IF vertical_change(p) < -JUMP_MOVE
            /\ p.jump_state \in {"peak", "descending"} THEN p
    ELSE jump_step(p, vertical_change(p))

\* _update_jump_state in which a grounded player moving down is descending
update_jump_state_landing(p) ==
    IF Len(p.position_history) < 2 THEN p
    ELSE IF vertical_change(p) > JUMP_MOVE /\ p.jump_state = "grounded"
    THEN [p EXCEPT !.jump_state = "descending"]
    ELSE jump_step(p, vertical_change(p))

\* _update_jump_state in which reaching the peak resets jump_height
update_jump_state_peak_reset(p) ==
    IF Len(p.position_history) < 2 THEN p
    ELSE IF p.jump_state = "ascending" /\ Abs(vertical_change(p)) < JUMP_STILL
    THEN [p EXCEPT !.jump_state = "peak", !.jump_height = 0]
    ELSE jump_step(p, vertical_change(p))

\* _update_jump_state in which |dy| <= 1 counts as still
update_jump_state_wide_still(p) ==
    IF Len(p.position_history) < 2 THEN p
    ELSE IF Abs(vertical_change(p)) = JUMP_STILL THEN jump_step(p, 0)
    ELSE jump_step(p, vertical_change(p))

\* _update_jump_state in which landing keeps jump_height
update_jump_state_keep_height(p) ==
    IF Len(p.position_history) < 2 THEN p
    ELSE IF p.jump_state = "descending" /\ Abs(vertical_change(p)) < JUMP_STILL
    THEN [p EXCEPT !.jump_state = "grounded"]
    ELSE jump_step(p, vertical_change(p))

\* _update_jump_state in which a still player at the peak is grounded
update_jump_state_peak_lands(p) ==
    IF Len(p.position_history) < 2 THEN p
    ELSE IF p.jump_state = "peak" /\ Abs(vertical_change(p)) < JUMP_STILL
    THEN [p EXCEPT !.jump_state = "grounded", !.jump_height = 0]
    ELSE jump_step(p, vertical_change(p))

\* _update_jump_state with dy <= -2 for dy < -2 at line 46
update_jump_state_low_rise(p) ==
    IF Len(p.position_history) < 2 THEN p
    ELSE IF vertical_change(p) = -JUMP_MOVE
    THEN IF p.jump_state = "ascending"
         THEN [p EXCEPT !.jump_height = @ + JUMP_MOVE]
         ELSE [p EXCEPT !.jump_state = "ascending", !.jump_height = 0]
    ELSE jump_step(p, vertical_change(p))

update_jump_state(p) ==
    IF Len(p.position_history) < 2 THEN p
    ELSE jump_step(p, p.position_history[Len(p.position_history)][1][2]
                      - p.position_history[Len(p.position_history) - 1][1][2])

\* lines 27-29: the speed of a move of squared length d2 in dt frames
set_speed(p, d2, dt) ==
    [p EXCEPT !.current_speed = [sqrt |-> d2, dt |-> dt],
              !.speed_history = DequeAppend(@, [sqrt |-> d2, dt |-> dt],
                                            SPEED_MAXLEN)]

\* lines 23-29 without the division by dt of line 27
update_speed_per_call(p, position, f) ==
    IF p.position_history # <<>> /\ f - Last(p.position_history)[2] > 0
    THEN set_speed(p, Dist2(position, Last(p.position_history)[1]), 1)
    ELSE p

\* lines 23-29 with dt >= 0 at line 26
update_speed_same_frame(p, position, f) ==
    IF p.position_history # <<>> /\ f - Last(p.position_history)[2] >= 0
    THEN set_speed(p, Dist2(position, Last(p.position_history)[1]),
                   f - Last(p.position_history)[2])
    ELSE p

\* the speed part of PlayerState.update_position (lines 23-29)
update_speed(p, position, f) ==
    IF p.position_history # <<>> /\ f - Last(p.position_history)[2] > 0
    THEN set_speed(p, Dist2(position, Last(p.position_history)[1]),
                   f - Last(p.position_history)[2])
    ELSE p

\* line 31 storing the index of the frame before
append_position_previous_frame(p, position, f) ==
    [p EXCEPT !.position_history =
                 DequeAppend(@, <<position, f - 1>>, POSITION_MAXLEN)]

\* line 31
append_position(p, position, f) ==
    [p EXCEPT !.position_history =
                 DequeAppend(@, <<position, f>>, POSITION_MAXLEN)]

PlayerState_update_position(p, position, f) ==
    update_jump_state(append_position(update_speed(p, position, f), position, f))

-----------------------------------------------------------------------------
(* BallState                                                               *)

BallState ==
    [position_history |-> <<>>,
     current_position |-> None,
     holder_id        |-> None,
     in_air           |-> FALSE,
     shot_arc         |-> <<>>]

\* line 72 without line 73
ball_append_history_only(b, position, f) ==
    [b EXCEPT !.position_history =
                 DequeAppend(@, <<position, f>>, BALL_POSITION_MAXLEN)]

\* lines 72-73
ball_append(b, position, f) ==
    [b EXCEPT !.position_history =
                 DequeAppend(@, <<position, f>>, BALL_POSITION_MAXLEN),
              !.current_position = position]

\* line 79 with >= for >
is_in_air_inclusive(d2) == d2 >= IN_AIR_DISTANCE * IN_AIR_DISTANCE

\* line 79: distance > 5.0, for the squared distance d2
is_in_air(d2) == d2 > IN_AIR_DISTANCE * IN_AIR_DISTANCE

\* lines 81-86 with line 83 seeding the arc with the current position only
ball_flight_unseeded(b, prev_pos, position, in_air) ==
    [b EXCEPT !.in_air = in_air,
              !.shot_arc = IF in_air THEN Append(@, position) ELSE <<>>]

\* lines 81-86 with every flying sample starting the arc again
ball_flight_restart(b, prev_pos, position, in_air) ==
    [b EXCEPT !.in_air = in_air,
              !.shot_arc = IF in_air THEN <<prev_pos, position>> ELSE <<>>]

\* lines 79-86, for the previous position and the new in_air
ball_flight(b, prev_pos, position, in_air) ==
    [b EXCEPT !.in_air = in_air,
              !.shot_arc = IF in_air /\ @ = <<>> THEN <<prev_pos, position>>
                           ELSE IF in_air THEN Append(@, position)
                           ELSE <<>>]

\* lines 76-86
ball_in_air(b, position) ==
    IF Len(b.position_history) > 1
    THEN ball_flight(b, b.position_history[Len(b.position_history) - 1][1],
                     position,
                     is_in_air(Dist2(position,
                         b.position_history[Len(b.position_history) - 1][1])))
    ELSE b

\* lines 88-89
ball_release(b) == IF ~b.in_air THEN [b EXCEPT !.holder_id = None] ELSE b

BallState_update_position(b, position, f) ==
    ball_release(ball_in_air(ball_append(b, position, f), position))

-----------------------------------------------------------------------------
(* PlayDetector                                                            *)

\* exact arithmetic on quotients [num, den] with den > 0
Quot(a, b) == [num |-> a, den |-> b]
QuotSub(a, b) == [num |-> a.num * b.den - b.num * a.den, den |-> a.den * b.den]
QuotGeq(a, b) == a.num * b.den >= b.num * a.den

\* the default court_dimensions of __init__ (lines 100-105), for the entries
\* the detector reads
DefaultCourt ==
    [length_ft           |-> LENGTH_FT,
     three_point_line_ft |-> Quot(THREE_POINT_NUM, THREE_POINT_DEN)]

\* line 109
THREE_POINT_DISTANCE == court_dimensions.three_point_line_ft

\* (court_dimensions['length_ft'] / 2, 0)
hoop_position == <<court_dimensions.length_ft \div 2, 0>>

\* the distance of a player's latest position to the hoop, as [sqrt |-> d2]
hoop_distance(player) ==
    [sqrt |-> Dist2(Last(player.position_history)[1], hoop_position)]

\* lines 199-214 with the jump_height of line 209 added to every play
new_play_with_height(ps, f, play_type, player_id) ==
    [frame       |-> f,
     play_type   |-> play_type,
     player_id   |-> player_id,
     confidence  |-> Quot(CONFIDENCE_NUM, CONFIDENCE_DEN),
     timestamp   |-> Quot(f, FPS),
     jump_height |-> ps[player_id].jump_height]
    @@ (IF play_type \in {"three_pointer", "two_pointer"}
        THEN [distance |-> hoop_distance(ps[player_id])]
        ELSE <<>>)

\* lines 199-214: the play recorded for play_type and player_id
new_play(ps, f, play_type, player_id) ==
    [frame      |-> f,
     play_type  |-> play_type,
     player_id  |-> player_id,
     confidence |-> Quot(CONFIDENCE_NUM, CONFIDENCE_DEN),
     timestamp  |-> Quot(f, FPS)]
    @@ (IF play_type = "dunk"
        THEN [jump_height |-> ps[player_id].jump_height]
        ELSE IF play_type \in {"three_pointer", "two_pointer"}
        THEN [distance |-> hoop_distance(ps[player_id])]
        ELSE <<>>)

\* a _record_play that inserts the play at the front of the log
record_play_front(history, ps, f, play_type, player_id) ==
    <<new_play(ps, f, play_type, player_id)>> \o history

\* _record_play
record_play(history, ps, f, play_type, player_id) ==
    Append(history, new_play(ps, f, play_type, player_id))

\* lines 156-157 for a player at peak or still ascending
dunk_rule_while_rising(history, ps, f, player_id) ==
    IF /\ ps[player_id].has_ball
       /\ ps[player_id].jump_state \in {"ascending", "peak"}
       /\ DUNK_DEN * ps[player_id].jump_height >= DUNK_NUM
    THEN record_play(history, ps, f, "dunk", player_id)
    ELSE history

\* lines 156-157
dunk_rule(history, ps, f, player_id) ==
    IF /\ ps[player_id].has_ball
       /\ ps[player_id].jump_state = "peak"
       /\ DUNK_DEN * ps[player_id].jump_height >= DUNK_NUM
    THEN record_play(history, ps, f, "dunk", player_id)
    ELSE history

\* line 166 with > for >=
strictly_beyond_three_point_line(distance) ==
    THREE_POINT_DISTANCE.den * THREE_POINT_DISTANCE.den * distance.sqrt
        > THREE_POINT_DISTANCE.num * THREE_POINT_DISTANCE.num

\* line 166: distance >= THREE_POINT_DISTANCE, for the distance [sqrt |-> d2]
beyond_three_point_line(distance) ==
    THREE_POINT_DISTANCE.den * THREE_POINT_DISTANCE.den * distance.sqrt
        >= THREE_POINT_DISTANCE.num * THREE_POINT_DISTANCE.num

\* lines 160-169 (position_history is never empty for a player of the frame)
pointer_rule(history, ps, f, player_id) ==
    IF ps[player_id].has_ball /\ ps[player_id].jump_state = "descending"
    THEN IF beyond_three_point_line(hoop_distance(ps[player_id]))
         THEN record_play(history, ps, f, "three_pointer", player_id)
         ELSE record_play(history, ps, f, "two_pointer", player_id)
    ELSE history

\* lines 172-176 with >= 5 samples for > 5
layup_rule_from_five(history, ps, f, player_id) ==
    IF /\ ps[player_id].has_ball
       /\ ps[player_id].jump_state \in {"ascending", "peak"}
       /\ DUNK_DEN * ps[player_id].jump_height < DUNK_NUM
       /\ Len(ps[player_id].position_history) >= LAYUP_MIN_SAMPLES
    THEN record_play(history, ps, f, "layup", player_id)
    ELSE history

\* lines 172-176 without the test of jump_state
layup_rule_any_jump(history, ps, f, player_id) ==
    IF /\ ps[player_id].has_ball
       /\ DUNK_DEN * ps[player_id].jump_height < DUNK_NUM
       /\ Len(ps[player_id].position_history) > LAYUP_MIN_SAMPLES
    THEN record_play(history, ps, f, "layup", player_id)
    ELSE history

\* lines 172-176
layup_rule(history, ps, f, player_id) ==
    IF /\ ps[player_id].has_ball
       /\ ps[player_id].jump_state \in {"ascending", "peak"}
       /\ DUNK_DEN * ps[player_id].jump_height < DUNK_NUM
       /\ Len(ps[player_id].position_history) > LAYUP_MIN_SAMPLES
    THEN record_play(history, ps, f, "layup", player_id)
    ELSE history

\* the body of the per-player loop of _detect_plays (lines 155-176)
detect_player_plays(history, ps, f, player_id) ==
    layup_rule(pointer_rule(dunk_rule(history, ps, f, player_id),
                            ps, f, player_id),
               ps, f, player_id)

RECURSIVE detect_players_loop(_, _, _, _)
detect_players_loop(history, ps, f, ids) ==
    IF ids = <<>> THEN history
    ELSE detect_players_loop(detect_player_plays(history, ps, f, Head(ids)),
                             ps, f, Tail(ids))

\* the key of min() at lines 190-191, squared
ball_distance(ps, b, id) ==
    Dist2(Last(ps[id].position_history)[1], b.current_position)

\* min(cand, key=..., default=(None, None)): the first of the nearest
first_nearest(ps, b, cand) ==
    IF cand = <<>> THEN None
    ELSE Some(cand[CHOOSE i \in 1..Len(cand) :
                 /\ \A j \in 1..Len(cand) :
                       ball_distance(ps, b, cand[i]) <= ball_distance(ps, b, cand[j])
                 /\ \A j \in 1..(i - 1) :
                       ball_distance(ps, b, cand[j]) > ball_distance(ps, b, cand[i])])

\* the identifiers of S in increasing order
RECURSIVE Increasing(_)
Increasing(S) ==
    IF S = {} THEN <<>>
    ELSE <<CHOOSE x \in S : \A y \in S : x <= y>>
            \o Increasing(S \ {CHOOSE x \in S : \A y \in S : x <= y})

\* lines 188-193 over self.players instead of current_players
nearest_known_player(ps, b, current_players) ==
    first_nearest(ps, b,
                  SelectSeq(Increasing(DOMAIN ps), LAMBDA id : Some(id) # b.holder_id))

\* lines 188-193: over the players of the frame other than the holder
nearest_defender(ps, b, current_players) ==
    first_nearest(ps, b,
                  SelectSeq(current_players, LAMBDA id : Some(id) # b.holder_id))

\* lines 194-195
credit_block(history, ps, f, defender) ==
    IF defender # None THEN record_play(history, ps, f, "block", defender[1])
    ELSE history

\* lines 178-195 without the test of line 182
detect_block_short_arc(history, ps, b, f, current_players) ==
    IF /\ b.in_air
       /\ Len(b.shot_arc) > ARC_MIN_POINTS
       /\ \E i \in 1..(Len(b.shot_arc) - 1) :
             b.shot_arc[i + 1][2] - b.shot_arc[i][2] < -BLOCK_DY
       /\ b.current_position # None
    THEN credit_block(history, ps, f, nearest_defender(ps, b, current_players))
    ELSE history

\* the block rule of _detect_plays (lines 178-195)
detect_block(history, ps, b, f, current_players) ==
    IF /\ b.in_air
       /\ Len(b.shot_arc) > ARC_MIN_POINTS
       /\ Len(b.shot_arc) > BLOCK_MIN_POINTS
       /\ \E i \in 1..(Len(b.shot_arc) - 1) :
             b.shot_arc[i + 1][2] - b.shot_arc[i][2] < -BLOCK_DY
       /\ b.current_position # None
    THEN credit_block(history, ps, f, nearest_defender(ps, b, current_players))
    ELSE history

detect_plays(history, ps, b, f, current_players) ==
    detect_block(detect_players_loop(history, ps, f, current_players),
                 ps, b, f, current_players)

\* lines 123-124 without the test of line 123: a new state every time
player_of_new(ps, player_id) == PlayerState(player_id)

\* lines 123-124: the player's state, created when the identifier is new
player_of(ps, player_id) ==
    IF player_id \in DOMAIN ps THEN ps[player_id] ELSE PlayerState(player_id)

\* lines 123-137 without line 134
store_player_in_air(st, det, player_id, moved) ==
    [st EXCEPT
       !.players = (player_id :> IF "ball_bbox" \in DOMAIN det
                                 THEN [moved EXCEPT !.has_ball = TRUE]
                                 ELSE moved) @@ @,
       !.ball = IF "ball_bbox" \in DOMAIN det
                THEN [@ EXCEPT !.holder_id = Some(player_id)]
                ELSE @,
       !.current_players = IF \E i \in 1..Len(@) : @[i] = player_id THEN @
                           ELSE Append(@, player_id)]

\* lines 123-137 with current_players a list of one entry per detection
store_player_each_detection(st, det, player_id, moved) ==
    [st EXCEPT
       !.players = (player_id :> IF "ball_bbox" \in DOMAIN det
                                 THEN [moved EXCEPT !.has_ball = TRUE]
                                 ELSE moved) @@ @,
       !.ball = IF "ball_bbox" \in DOMAIN det
                THEN [@ EXCEPT !.holder_id = Some(player_id), !.in_air = FALSE]
                ELSE @,
       !.current_players = Append(@, player_id)]

\* lines 123-137 with has_ball = ('ball_bbox' in det) for lines 132-135
store_player_evidence_only(st, det, player_id, moved) ==
    [st EXCEPT
       !.players = (player_id :> [moved EXCEPT
                                    !.has_ball = "ball_bbox" \in DOMAIN det]) @@ @,
       !.ball = IF "ball_bbox" \in DOMAIN det
                THEN [@ EXCEPT !.holder_id = Some(player_id), !.in_air = FALSE]
                ELSE @,
       !.current_players = IF \E i \in 1..Len(@) : @[i] = player_id THEN @
                           ELSE Append(@, player_id)]

\* lines 123-137, for the player's state after update_position
store_player(st, det, player_id, moved) ==
    [st EXCEPT
       !.players = (player_id :> IF "ball_bbox" \in DOMAIN det
                                 THEN [moved EXCEPT !.has_ball = TRUE]
                                 ELSE moved) @@ @,
       !.ball = IF "ball_bbox" \in DOMAIN det
                THEN [@ EXCEPT !.holder_id = Some(player_id), !.in_air = FALSE]
                ELSE @,
       !.current_players = IF \E i \in 1..Len(@) : @[i] = player_id THEN @
                           ELSE Append(@, player_id)]

\* lines 122-137, for the identifier of line 122
player_detection(st, det, f, player_id) ==
    store_player(st, det, player_id,
                 PlayerState_update_position(player_of(st.players, player_id),
                                             Center(det.bbox), f))

\* one iteration of the detection loop of update_frame (lines 120-143);
\* st.raised records a KeyError leaving the loop
process_detection(st, det, f) ==
    IF "class_name" \notin DOMAIN det THEN [st EXCEPT !.raised = TRUE]
    ELSE IF det.class_name = "player" THEN
        \* det.get('track_id', det['bbox'][0]) evaluates det['bbox'] first
        IF "bbox" \notin DOMAIN det THEN [st EXCEPT !.raised = TRUE]
        ELSE player_detection(st, det, f,
                              IF "track_id" \in DOMAIN det THEN det.track_id
                              ELSE det.bbox[1])
    ELSE IF det.class_name = "ball" THEN
        IF "bbox" \notin DOMAIN det
        THEN [st EXCEPT !.ball_detected = TRUE, !.raised = TRUE]
        ELSE [st EXCEPT !.ball_detected = TRUE,
                        !.ball = BallState_update_position(@, Center(det.bbox), f)]
    ELSE st

\* st.loop keeps the players and the ball on entry to the detection loop and
\* after each processed detection
keep_loop_state(st) ==
    [st EXCEPT !.loop = Append(@, [players |-> st.players, ball |-> st.ball])]

\* the detection loop: stops at the first detection that raises
RECURSIVE detection_loop(_, _, _)
detection_loop(st, dets, f) ==
    IF dets = <<>> \/ st.raised THEN st
    ELSE detection_loop(keep_loop_state(process_detection(st, Head(dets), f)),
                        Tail(dets), f)

\* lines 145-147 without the test of holder_id
end_of_frame_undetected(b, ball_detected) ==
    IF ~ball_detected THEN [b EXCEPT !.in_air = TRUE] ELSE b

\* lines 145-147
end_of_frame(b, ball_detected) ==
    IF ~ball_detected /\ b.holder_id = None THEN [b EXCEPT !.in_air = TRUE] ELSE b

\* lines 117-118: the locals of update_frame on entry to the loop
loop_entry(s) ==
    [players |-> s.players, ball |-> s.ball,
     current_players |-> <<>>, ball_detected |-> FALSE, raised |-> FALSE,
     loop |-> <<[players |-> s.players, ball |-> s.ball]>>]

\* lines 145-150, for the ball after the end-of-frame rule
classify_frame(s, st, b, f) ==
    [players |-> st.players, ball |-> b, frame_idx |-> f,
     play_history |-> detect_plays(s.play_history, st.players, b, f,
                                   st.current_players),
     raised |-> FALSE, loop |-> st.loop]

\* lines 145-150 after the loop ended in st; nothing more when it raised
finish_frame(s, st, f) ==
    IF st.raised
    THEN [players |-> st.players, ball |-> st.ball, frame_idx |-> f,
          play_history |-> s.play_history, raised |-> TRUE, loop |-> st.loop]
    ELSE classify_frame(s, st, end_of_frame(st.ball, st.ball_detected), f)

\* an update_frame that increments frame_idx after the detection loop
update_frame_late_increment(s, dets) ==
    finish_frame(s, detection_loop(loop_entry(s), dets, s.frame_idx),
                 s.frame_idx + 1)

\* PlayDetector.update_frame(dets): the whole call, as a function of the state
\* s = [players, ball, frame_idx, play_history]
update_frame(s, dets) ==
    finish_frame(s, detection_loop(loop_entry(s), dets, s.frame_idx + 1),
                 s.frame_idx + 1)

\* the floats of the model: the multiples of 1 / (FPS * FloatSteps), which
\* include every timestamp frame / 30 and the windows 0, 1/2, 3 and 5
FloatSteps == 2

FloatSpacing == Quot(1, FPS * FloatSteps)

\* the float nearest to the quotient d
round_to_float(d) ==
    Quot((2 * d.num * FPS * FloatSteps + d.den) \div (2 * d.den),
         FPS * FloatSteps)

\* line 225: current_time - last_n_seconds, a float subtraction, which gives
\* the float nearest to the difference
float_sub(a, b) == round_to_float(QuotSub(a, b))

\* line 227, for min_timestamp
not_older(history, min_timestamp) ==
    SelectSeq(history, LAMBDA p : QuotGeq(p.timestamp, min_timestamp))

\* line 227 with > for >=
strictly_newer(history, min_timestamp) ==
    SelectSeq(history, LAMBDA p : ~QuotGeq(min_timestamp, p.timestamp))

\* a get_recent_plays that leaves out the play at the lower bound
get_recent_plays_exclusive(history, last_n_seconds) ==
    IF history = <<>> THEN <<>>
    ELSE strictly_newer(history, float_sub(Last(history).timestamp, last_n_seconds))

\* a get_recent_plays that takes a negative window as 0
get_recent_plays_clamped(history, last_n_seconds) ==
    IF history = <<>> THEN <<>>
    ELSE IF last_n_seconds.num < 0 THEN not_older(history, Last(history).timestamp)
    ELSE not_older(history, float_sub(Last(history).timestamp, last_n_seconds))

\* PlayDetector.get_recent_plays(last_n_seconds)
get_recent_plays(history, last_n_seconds) ==
    IF history = <<>> THEN <<>>
    ELSE not_older(history, float_sub(Last(history).timestamp, last_n_seconds))

-----------------------------------------------------------------------------
(* The job layer (videos.py, processing_pipeline.py): the status dict of    *)
(* each uploaded video and the background task that processes it. A dict is *)
(* a function whose domain is the dict's key set.                           *)

MaxVideos == 2

VideoIds == 1..MaxVideos

\* videos.py lines 330-336: the progress values of the simulated stages
Stages == <<10, 30, 50, 70, 90>>

NoTask == [pc |-> "none", stage |-> 0, outcome |-> "none", result |-> None,
           updates |-> <<>>]

\* no video has been uploaded
NoJobs ==
    /\ processing_status = <<>>
    /\ tasks = [v \in VideoIds |-> NoTask]

\* update_processing_status lines 249-254: the timestamps added to an update
stamped(status_updates) ==
    (IF "status" \in DOMAIN status_updates /\ status_updates.status = "error"
        /\ "error_time" \notin DOMAIN status_updates
     THEN [error_time |-> "now"] ELSE <<>>)
       @@ [last_updated |-> "now"] @@ status_updates

\* update_processing_status (lines 244-259), for the dict ps
update_processing_status(ps, video_id, status_updates) ==
    [v \in DOMAIN ps \cup {video_id} |->
        IF v = video_id
        THEN stamped(status_updates) @@ (IF v \in DOMAIN ps THEN ps[v] ELSE <<>>)
        ELSE ps[v]]

\* ProcessingPipeline.process_video (lines 72-187): what it returns when the
\* output directory can or cannot be made and the final video can or cannot
\* be written; every exception is caught at line 179
process_video(makedirs_ok, copy_ok) ==
    IF makedirs_ok /\ copy_ok
    THEN [status |-> "completed", output_file |-> "final_vertical.mp4"]
    ELSE [status |-> "error", error |-> "failed"]

\* lines 294-302
initial_update == [status |-> "processing", progress |-> 0]

\* lines 308-313
missing_file_update == [status |-> "error", progress |-> 0, error |-> "not found"]

\* lines 385-390
exception_update == [status |-> "error", error |-> "raised"]

\* lines 363-374 made only when the pipeline's result is not an error
completed_update_checked(pipeline_result) ==
    IF pipeline_result.status = "error" THEN exception_update
    ELSE [status |-> "completed", progress |-> 100,
          result |-> [output_file |-> pipeline_result.output_file]]

\* lines 363-374: result.get("output_file", "")
completed_update(pipeline_result) ==
    [status |-> "completed", progress |-> 100,
     result |-> [output_file |-> IF "output_file" \in DOMAIN pipeline_result
                                 THEN pipeline_result.output_file ELSE ""]]

\* the status dict and the task after the task has made the update
updated(job, video_id, status_updates) ==
    [ps   |-> update_processing_status(job.ps, video_id, status_updates),
     task |-> [job.task EXCEPT !.updates = Append(@, status_updates)]]

\* the task has ended
ended(job, outcome) ==
    [job EXCEPT !.task.pc = "ended", !.task.outcome = outcome]

\* lines 304-314: the input file is missing
missing_file(job, video_id) ==
    ended(updated(job, video_id, missing_file_update), "missing_file")

\* lines 377-390: an exception was caught
caught(job, video_id) ==
    ended(updated(job, video_id, exception_update), "exception")

\* lines 320-345: progress 5, then the first stage, then asyncio.sleep
first_stage(job, video_id) ==
    [updated(updated(job, video_id, [progress |-> 5]),
             video_id, [progress |-> Stages[1]])
       EXCEPT !.task.pc = "sleeping", !.task.stage = 1]

\* process_video_background from its start to its first await (lines 285-345):
\* the file exists or not, and os.path.getsize or ProcessingPipeline() may
\* raise
background_start(job, video_id, exists, raising) ==
    IF ~exists THEN missing_file(updated(job, video_id, initial_update), video_id)
    ELSE IF raising = "getsize"
    THEN caught(updated(job, video_id, initial_update), video_id)
    ELSE IF raising = "pipeline"
    THEN caught(updated(updated(job, video_id, initial_update),
                        video_id, [progress |-> 5]), video_id)
    ELSE first_stage(updated(job, video_id, initial_update), video_id)

\* process_video_background after a sleep (lines 338-356): the next stage, or
\* progress 95 and the call of the pipeline
background_stage(job, video_id) ==
    IF job.task.stage < Len(Stages)
    THEN [updated(job, video_id, [progress |-> Stages[job.task.stage + 1]])
            EXCEPT !.task.stage = @ + 1]
    ELSE [updated(job, video_id, [progress |-> 95]) EXCEPT !.task.pc = "pipeline"]

\* process_video_background after the pipeline returned its result (lines 358-376)
background_finish(job, video_id, pipeline_result) ==
    ended([updated(job, video_id, completed_update(pipeline_result))
             EXCEPT !.task.result = Some(pipeline_result)], "returned")

\* the job of a video: its task and the status dict
job_of(video_id) == [ps |-> processing_status, task |-> tasks[video_id]]

detector_vars ==
    <<court_dimensions, players, ball, frame_idx, play_history, op, inputs,
      raised, loop_states, window, result>>

Becomes(job, video_id) ==
    /\ processing_status' = job.ps
    /\ tasks' = [tasks EXCEPT ![video_id] = job.task]
    /\ UNCHANGED detector_vars

\* the upload endpoint (lines 27-146) for a valid file: the status dict is
\* created and the background task is scheduled
UploadVideo(video_id) ==
    /\ tasks[video_id].pc = "none"
    /\ processing_status' = (video_id :> initial_update) @@ processing_status
    /\ tasks' = [tasks EXCEPT ![video_id].pc = "created"]
    /\ UNCHANGED detector_vars

BackgroundStart(video_id, exists, raising) ==
    /\ tasks[video_id].pc = "created"
    /\ Becomes(background_start(job_of(video_id), video_id, exists, raising),
               video_id)

BackgroundStage(video_id) ==
    /\ tasks[video_id].pc = "sleeping"
    /\ Becomes(background_stage(job_of(video_id), video_id), video_id)

BackgroundFinish(video_id, makedirs_ok, copy_ok) ==
    /\ tasks[video_id].pc = "pipeline"
    /\ Becomes(background_finish(job_of(video_id), video_id,
                                 process_video(makedirs_ok, copy_ok)), video_id)

\* the task is cancelled while it awaits: asyncio.CancelledError is not an
\* Exception, so line 377 does not catch it
BackgroundCancelled(video_id) ==
    /\ tasks[video_id].pc \in {"sleeping", "pipeline"}
    /\ Becomes(ended(job_of(video_id), "cancelled"), video_id)

NextJobs ==
    \E video_id \in VideoIds :
       \/ UploadVideo(video_id)
       \/ \E exists \in BOOLEAN, raising \in {"none", "getsize", "pipeline"} :
             BackgroundStart(video_id, exists, raising)
       \/ BackgroundStage(video_id)
       \/ \E makedirs_ok \in BOOLEAN, copy_ok \in BOOLEAN :
             BackgroundFinish(video_id, makedirs_ok, copy_ok)
       \/ BackgroundCancelled(video_id)

-----------------------------------------------------------------------------
(* The detector as a state machine: one action per public call.            *)

\* PlayDetector.__init__
Fresh == [players |-> <<>>, ball |-> BallState, frame_idx |-> 0,
          play_history |-> <<>>]

Detector == [players |-> players, ball |-> ball, frame_idx |-> frame_idx,
             play_history |-> play_history]

\* the detector's own fields of the value update_frame gives
detector_of(r) ==
    [players |-> r.players, ball |-> r.ball, frame_idx |-> r.frame_idx,
     play_history |-> r.play_history]

\* the detector after update_frame was called with each list of frames in turn:
\* the first half of the calls, then the second half (frame_idx is never
\* negative; the test makes TLC evaluate s before it descends)
RECURSIVE run(_, _)
run(s, frames) ==
    IF frames = <<>> \/ s.frame_idx < 0 THEN s
    ELSE IF Len(frames) = 1 THEN detector_of(update_frame(s, frames[1]))
    ELSE run(run(s, SubSeq(frames, 1, Len(frames) \div 2)),
             SubSeq(frames, Len(frames) \div 2 + 1, Len(frames)))

\* the state in which the last call was update_frame, which gave r
AfterUpdate(r, frames) ==
    /\ players = r.players
    /\ ball = r.ball
    /\ frame_idx = r.frame_idx
    /\ play_history = r.play_history
    /\ op = "update_frame"
    /\ inputs = frames
    /\ raised = r.raised
    /\ loop_states = r.loop
    /\ window = Quot(0, 1)
    /\ result = <<>>

\* the state in which update_frame has been called with each list of frames
Started(frames) ==
    IF frames = <<>>
    THEN /\ players = Fresh.players
         /\ ball = Fresh.ball
         /\ frame_idx = Fresh.frame_idx
         /\ play_history = Fresh.play_history
         /\ op = "init"
         /\ inputs = <<>>
         /\ raised = FALSE
         /\ loop_states = <<>>
         /\ window = Quot(0, 1)
         /\ result = <<>>
    ELSE AfterUpdate(update_frame(run(Fresh, SubSeq(frames, 1, Len(frames) - 1)),
                                  Last(frames)), frames)

\* PlayDetector(court) followed by one update_frame call for each of frames
Constructed(court, frames) ==
    /\ court_dimensions = court
    /\ Started(frames)
    /\ NoJobs

\* PlayDetector() followed by one update_frame call for each of frames
InitAfter(frames) == Constructed(DefaultCourt, frames)

Init == InitAfter(<<>>)

\* the step in which update_frame(dets) gives r
BecomesAfterUpdate(r, dets) ==
    /\ players' = r.players
    /\ ball' = r.ball
    /\ frame_idx' = r.frame_idx
    /\ play_history' = r.play_history
    /\ op' = "update_frame"
    /\ inputs' = Append(inputs, dets)
    /\ raised' = r.raised
    /\ loop_states' = r.loop
    /\ window' = Quot(0, 1)
    /\ result' = <<>>
    /\ UNCHANGED <<court_dimensions, processing_status, tasks>>

\* detector.update_frame(dets)
UpdateFrame(dets) == BecomesAfterUpdate(update_frame(Detector, dets), dets)

\* detector.get_recent_plays(w)
GetRecentPlays(w) ==
    /\ op' = "get_recent_plays"
    /\ window' = w
    /\ result' = get_recent_plays(play_history, w)
    /\ UNCHANGED <<court_dimensions, players, ball, frame_idx, play_history,
                   inputs, raised, loop_states, processing_status, tasks>>

\* argument of the last update_frame call
detections == IF inputs = <<>> THEN <<>> ELSE Last(inputs)

\* number of detections passed to update_frame so far
RECURSIVE Fed(_)
Fed(frames) == IF frames = <<>> THEN 0 ELSE Len(Head(frames)) + Fed(Tail(frames))

-----------------------------------------------------------------------------
(* Inputs.                                                                 *)

\* a 2 x 2 bounding box centred at c
Box(c) == <<c[1] - 1, c[2] - 1, c[1] + 1, c[2] + 1>>

PlayerDet(id, c) == [class_name |-> "player", bbox |-> Box(c), track_id |-> id]
HolderDet(id, c) == PlayerDet(id, c) @@ [ball_bbox |-> Box(c)]
UntrackedDet(c) == [class_name |-> "player", bbox |-> Box(c)]
BallDet(c) == [class_name |-> "ball", bbox |-> Box(c)]
OtherDet(c) == [class_name |-> "referee", bbox |-> Box(c)]
NoClassDet(c) == [bbox |-> Box(c)]
NoBoxPlayerDet(id) == [class_name |-> "player", track_id |-> id]
NoBoxBallDet == [class_name |-> "ball"]

\* all lists over S of length at most n
RECURSIVE SeqsUpTo(_, _)
SeqsUpTo(S, n) ==
    IF n <= 0 THEN {<<>>}
    ELSE LET shorter == SeqsUpTo(S, n - 1)
         IN  shorter \cup {Append(l, x) : l \in {t \in shorter : Len(t) = n - 1},
                                          x \in S}

-----------------------------------------------------------------------------
(* Spec: the detector from its constructor, fed well-formed detections of  *)
(* two tracked players, an untracked player and the ball.                  *)

\* update_frame calls in a run, and detections passed to them in total
MaxFrames == 3
MaxDetections == 3

Dets ==
    {HolderDet(1, <<47, 6>>), PlayerDet(1, <<47, 3>>),
     HolderDet(2, <<40, 6>>), PlayerDet(2, <<44, 2>>),
     UntrackedDet(<<3, 6>>),
     BallDet(<<47, 0>>), BallDet(<<47, 5>>), BallDet(<<47, 11>>)}

\* get_recent_plays() with its default argument, 5.0
Windows == {Quot(5, 1)}

Next ==
    \/ \E dets \in SeqsUpTo(Dets, MaxDetections - Fed(inputs)) :
          /\ frame_idx < MaxFrames
          /\ UpdateFrame(dets)
    \/ \E w \in Windows : GetRecentPlays(w)

Spec == Init /\ [][Next]_vars

-----------------------------------------------------------------------------
(* SpecMalformed: the detector fed detections some of which lack their     *)
(* class tag or their bounding box.                                        *)

MalformedDets ==
    {NoClassDet(<<47, 0>>), NoBoxPlayerDet(1), NoBoxBallDet,
     OtherDet(<<47, 0>>),
     HolderDet(1, <<47, 6>>), PlayerDet(2, <<44, 2>>),
     BallDet(<<47, 0>>), BallDet(<<47, 11>>)}

NextMalformed ==
    \E dets \in SeqsUpTo(MalformedDets, MaxDetections - Fed(inputs)) :
       /\ frame_idx < MaxFrames
       /\ UpdateFrame(dets)

SpecMalformed == Init /\ [][NextMalformed]_vars

-----------------------------------------------------------------------------
(* SpecPlays: one tracked player holding the ball and moving up and down   *)
(* in front of the hoop, at most one detection a frame, with the log       *)
(* queried between frames.  It starts from the constructor or from the     *)
(* state after the session ExampleFrames, whose plays fall on frames       *)
(* 30, 90, 180 and 270 (timestamps 1.0, 3.0, 6.0 and 9.0).  The windows    *)
(* and these timestamps are exact binary fractions, and in the runs from   *)
(* the constructor no play is as old as a positive window, so the exact    *)
(* arithmetic of the model is the program's floating-point arithmetic.     *)

MaxPlayFrames == 6

PlayYs == {20, 23, 26}

PlayFrames ==
    {<<>>, <<BallDet(<<47, 0>>)>>} \cup {<<HolderDet(1, <<47, y>>)>> : y \in PlayYs}

PlayWindows == {Quot(-1, 2), Quot(0, 1), Quot(3, 1), Quot(5, 1)}

ExampleFrames ==
    [f \in 1..270 |->
        IF f = 28 THEN <<HolderDet(1, <<47, 23>>)>>
        ELSE IF f = 29 THEN <<HolderDet(1, <<47, 20>>)>>
        ELSE IF f = 30 THEN <<HolderDet(1, <<47, 23>>)>>
        ELSE IF f = 90 THEN <<HolderDet(1, <<47, 26>>)>>
        ELSE IF f = 180 THEN <<HolderDet(1, <<47, 29>>)>>
        ELSE IF f = 270 THEN <<HolderDet(1, <<47, 32>>)>>
        ELSE <<>>]

InitPlays == InitAfter(<<>>) \/ InitAfter(ExampleFrames)

NextPlays ==
    \/ \E dets \in PlayFrames :
          /\ Len(inputs) < MaxPlayFrames
          /\ UpdateFrame(dets)
    \/ \E w \in PlayWindows : GetRecentPlays(w)

SpecPlays == InitPlays /\ [][NextPlays]_vars

-----------------------------------------------------------------------------
(* One tracked player moving vertically, one detection per frame: each new  *)
(* sample is level with the previous one or 3 units above or below it.     *)

MaxJumpFrames == 9

JumpYs == {0, 3, 6, 9, 12, 15}

JumpDeltas == {-3, 0, 3}

\* the vertical position of player 1 in the last sample
LastY == Last(players[1].position_history)[1][2]

NextJump ==
    \E y \in JumpYs :
       /\ frame_idx < MaxJumpFrames
       /\ 1 \in DOMAIN players => y - LastY \in JumpDeltas
       /\ UpdateFrame(<<PlayerDet(1, <<47, y>>)>>)

SpecJump == Init /\ [][NextJump]_vars

-----------------------------------------------------------------------------
(* Histories at capacity: RingWarmup frames with one sample of player 1    *)
(* and one of the ball each, then up to MaxRingFrames frames with none,    *)
(* one or two samples of the player and none or one of the ball.           *)

RingWarmup == 28

MaxRingFrames == 4

WarmupFrames ==
    [f \in 1..RingWarmup |-> <<PlayerDet(1, <<f, 3>>), BallDet(<<f, 20>>)>>]

RingFrames ==
    {<<>>,
     <<PlayerDet(1, <<47, 3>>), BallDet(<<47, 0>>)>>,
     <<BallDet(<<47, 11>>), PlayerDet(1, <<47, 6>>)>>,
     <<PlayerDet(1, <<44, 2>>), PlayerDet(1, <<47, 6>>)>>}

InitRing == InitAfter(WarmupFrames)

NextRing ==
    \E dets \in RingFrames :
       /\ frame_idx < RingWarmup + MaxRingFrames
       /\ UpdateFrame(dets)

SpecRing == InitRing /\ [][NextRing]_vars

-----------------------------------------------------------------------------
(* A ball in flight: five frames with one ball detection each, every move  *)
(* longer than 5.0, leave a shot_arc of 5 points, with upward deltas       *)
(* (ZigzagArc) or without (FallingArc); then up to MaxBlockFrames frames   *)
(* with the ball, two players, a holder, another class or nothing.         *)

MaxBlockFrames == 3

ZigzagArc ==
    <<  <<BallDet(<<47, 0>>)>>, <<BallDet(<<47, 11>>)>>, <<BallDet(<<47, 0>>)>>,
        <<BallDet(<<47, 11>>)>>, <<BallDet(<<47, 0>>)>>  >>

FallingArc ==
    <<  <<BallDet(<<47, -24>>)>>, <<BallDet(<<47, -18>>)>>,
        <<BallDet(<<47, -12>>)>>, <<BallDet(<<47, -6>>)>>, <<BallDet(<<47, 0>>)>>  >>

BlockFrames ==
    {<<>>,
     <<OtherDet(<<47, 0>>)>>,
     <<BallDet(<<47, 11>>), PlayerDet(1, <<47, 6>>), PlayerDet(2, <<44, 2>>)>>,
     <<PlayerDet(2, <<44, 2>>), BallDet(<<47, 0>>), PlayerDet(1, <<47, 6>>)>>,
     <<BallDet(<<47, 11>>), PlayerDet(2, <<44, 7>>), PlayerDet(1, <<47, 6>>)>>,
     <<HolderDet(1, <<47, 6>>), BallDet(<<47, 11>>), PlayerDet(2, <<44, 2>>)>>,
     <<HolderDet(1, <<47, 6>>), BallDet(<<47, 11>>)>>,
     <<BallDet(<<47, 11>>), HolderDet(1, <<47, 6>>), PlayerDet(2, <<44, 2>>)>>,
     <<PlayerDet(2, <<44, 2>>)>>,
     <<BallDet(<<47, 5>>)>>}

InitBlock == InitAfter(ZigzagArc) \/ InitAfter(FallingArc)

NextBlock ==
    \E dets \in BlockFrames :
       /\ frame_idx < Len(ZigzagArc) + MaxBlockFrames
       /\ UpdateFrame(dets)

SpecBlock == InitBlock /\ [][NextBlock]_vars

-----------------------------------------------------------------------------
(* The player rules: up to MaxRuleFrames frames of two players near the    *)
(* hoop line, 20, 23 or 26 units from the hoop, fed to a new detector, to  *)
(* a detector that has seen player 1 hold the ball in frames 35 to 38      *)
(* (RuleWarmup), or to one whose ball is in flight (ZigzagArc); the court   *)
(* is the default one or one with its three-point line at 26.              *)

MaxRuleFrames == 4

Courts ==
    {DefaultCourt, [DefaultCourt EXCEPT !.three_point_line_ft = Quot(26, 1)]}

RuleWarmup ==
    [f \in 1..38 |-> IF f >= 35 THEN <<HolderDet(1, <<47, 26>>)>> ELSE <<>>]

RuleScripts == {<<>>, RuleWarmup, ZigzagArc}

RuleFrames ==
    {<<>>,
     <<HolderDet(1, <<47, 20>>)>>,
     <<HolderDet(1, <<47, 23>>)>>,
     <<HolderDet(1, <<47, 26>>)>>,
     <<PlayerDet(2, <<47, 20>>)>>,
     <<PlayerDet(2, <<47, 23>>)>>,
     <<HolderDet(2, <<47, 20>>), HolderDet(1, <<47, 23>>)>>,
     <<HolderDet(1, <<47, 26>>), PlayerDet(1, <<47, 23>>)>>,
     <<BallDet(<<47, 11>>), PlayerDet(2, <<47, 23>>)>>}

StartsWith(frames, script) ==
    Len(script) <= Len(frames) /\ SubSeq(frames, 1, Len(script)) = script

\* the number of update_frame calls made after the script of the initial state
RuleFramesFed ==
    IF StartsWith(inputs, RuleWarmup) THEN Len(inputs) - Len(RuleWarmup)
    ELSE IF StartsWith(inputs, ZigzagArc) THEN Len(inputs) - Len(ZigzagArc)
    ELSE Len(inputs)

InitRules ==
    \E court \in Courts : \E script \in RuleScripts : Constructed(court, script)

NextRules ==
    \E dets \in RuleFrames :
       /\ RuleFramesFed < MaxRuleFrames
       /\ UpdateFrame(dets)

SpecRules == InitRules /\ [][NextRules]_vars

\* the caller passes every frame of the video to update_frame
SpecRulesFair == SpecRules /\ WF_vars(NextRules)

-----------------------------------------------------------------------------
(* The jump machine: one tracked player, one detection per frame, each new *)
(* sample between 4 units above and 3 units below the previous one.        *)

MaxStepFrames == 5

StepDeltas == {-4, -3, -2, -1, 0, 1, 2, 3}

NextSteps ==
    \E d \in StepDeltas :
       /\ frame_idx < MaxStepFrames
       /\ UpdateFrame(<<PlayerDet(1, <<47, IF 1 \in DOMAIN players
                                           THEN LastY + d ELSE 0>>)>>)

SpecSteps == Init /\ [][NextSteps]_vars

-----------------------------------------------------------------------------
(* Who is credited: up to MaxCreditFrames frames fed to a detector whose    *)
(* ball is in flight (ZigzagArc), with a player detected three times in    *)
(* one frame, a defender detected twice, and frames without players.       *)

MaxCreditFrames == 3

CreditFrames ==
    {<<>>,
     <<HolderDet(1, <<47, 6>>), PlayerDet(1, <<47, 3>>), HolderDet(1, <<47, 6>>)>>,
     <<HolderDet(1, <<47, 6>>)>>,
     <<PlayerDet(1, <<47, 3>>)>>,
     <<PlayerDet(2, <<44, 2>>)>>,
     <<BallDet(<<47, 11>>), PlayerDet(2, <<44, 2>>), PlayerDet(2, <<44, 7>>)>>,
     <<BallDet(<<47, 11>>)>>,
     <<BallDet(<<47, 0>>)>>}

NextCredit ==
    \E dets \in CreditFrames :
       /\ frame_idx < Len(ZigzagArc) + MaxCreditFrames
       /\ UpdateFrame(dets)

SpecCredit == InitAfter(ZigzagArc) /\ [][NextCredit]_vars

-----------------------------------------------------------------------------
(* A long flight: FlightWarmup frames with one ball detection each, every   *)
(* move longer than 5.0, then up to MaxFlightFrames frames with the ball    *)
(* moving on, resting, detected twice, held, or not seen.                   *)

FlightWarmup == 28

MaxFlightFrames == 4

FlightFrame(f) == <<BallDet(<<47, IF f % 2 = 1 THEN 0 ELSE 11>>)>>

FlightWarmupFrames == [f \in 1..FlightWarmup |-> FlightFrame(f)]

FlightFrames ==
    {<<>>,
     <<BallDet(<<47, 0>>)>>,
     <<BallDet(<<47, 11>>)>>,
     <<BallDet(<<47, 5>>)>>,
     <<BallDet(<<47, 5>>), BallDet(<<47, 11>>)>>,
     <<BallDet(<<47, 5>>), BallDet(<<47, 11>>), PlayerDet(2, <<44, 2>>)>>,
     <<BallDet(<<47, 0>>), PlayerDet(2, <<44, 2>>)>>,
     <<HolderDet(1, <<47, 6>>)>>,
     <<HolderDet(1, <<47, 6>>), BallDet(<<47, 0>>), PlayerDet(2, <<44, 2>>)>>,
     <<PlayerDet(2, <<44, 2>>)>>}

NextFlight ==
    \E dets \in FlightFrames :
       /\ frame_idx < FlightWarmup + MaxFlightFrames
       /\ UpdateFrame(dets)

SpecFlight == InitAfter(FlightWarmupFrames) /\ [][NextFlight]_vars

-----------------------------------------------------------------------------
(* The query: a log with plays at 1.0, 3.0, 6.0 and 9.0 seconds, up to      *)
(* MaxRecentFrames more frames, and get_recent_plays with windows that are  *)
(* floats of the model and windows a quarter of the float spacing long.     *)

MaxRecentFrames == 2

RecentWindows ==
    {Quot(-1, 2), Quot(-1, FPS), Quot(-1, 4 * FPS * FloatSteps), Quot(0, 1),
     Quot(1, 4 * FPS * FloatSteps), Quot(3, 1), Quot(5, 1)}

NextRecent ==
    \/ \E dets \in PlayFrames :
          /\ frame_idx < Len(ExampleFrames) + MaxRecentFrames
          /\ UpdateFrame(dets)
    \/ \E w \in RecentWindows : GetRecentPlays(w)

SpecRecent == InitAfter(ExampleFrames) /\ [][NextRecent]_vars

-----------------------------------------------------------------------------
(* The job layer alone: up to MaxVideos videos are uploaded and processed   *)
(* by tasks that interleave at their awaits.                                *)

SpecJobs == Init /\ [][NextJobs]_vars

-----------------------------------------------------------------------------
(* Properties.                                                             *)

\* the identifier update_frame gives the player of a player detection
DetPlayerId(det) == IF "track_id" \in DOMAIN det THEN det.track_id ELSE det.bbox[1]

IsPlayerDet(det) ==
    /\ "class_name" \in DOMAIN det
    /\ det.class_name = "player"
    /\ "bbox" \in DOMAIN det

IsBallDet(det) ==
    /\ "class_name" \in DOMAIN det
    /\ det.class_name = "ball"
    /\ "bbox" \in DOMAIN det

\* a detection with its class tag and, for a player or the ball, its box
WellFormed(det) ==
    /\ "class_name" \in DOMAIN det
    /\ det.class_name \in {"player", "ball"} => "bbox" \in DOMAIN det

(* C1: whenever ball.in_air is true, ball.holder_id is None, at the end of *)
(* every call and between the detections of a frame: the ball is never     *)
(* both held and airborne.                                                 *)
C1_NeverHeldAndAirborne ==
    /\ ball.in_air => ball.holder_id = None
    /\ \A i \in 1..Len(loop_states) :
          loop_states[i].ball.in_air => loop_states[i].ball.holder_id = None

(* C2: after every update_frame call a player's has_ball is true only if a *)
(* detection of that player in the frame just processed carried possession *)
(* evidence (a ball_bbox).                                                 *)
C2_HasBallOnlyWithEvidence ==
    \A id \in DOMAIN players :
       players[id].has_ball =>
          \E i \in 1..Len(detections) :
             /\ IsPlayerDet(detections[i])
             /\ DetPlayerId(detections[i]) = id
             /\ "ball_bbox" \in DOMAIN detections[i]

SkippingMalformed(r) == <<r.players, r.ball, r.frame_idx, r.play_history>>

(* C3: a malformed detection (no class tag, or a player or ball detection  *)
(* with no bounding box) is skipped alone: update_frame does not abort and *)
(* ends in the state it reaches on the frame's well-formed detections,     *)
(* end-of-frame rule and classifier included.                              *)
C3_MalformedSkipped ==
    [][inputs' # inputs =>
         /\ ~raised'
         /\ <<players', ball', frame_idx', play_history'>>
               = SkippingMalformed(update_frame(Detector,
                                       SelectSeq(Last(inputs'), WellFormed)))]_vars

IsPrefix(a, b) == Len(a) <= Len(b) /\ SubSeq(b, 1, Len(a)) = a

FrameOrdered(h) == \A i \in 1..(Len(h) - 1) : h[i].frame <= h[i + 1].frame

Frames(h) == [i \in 1..Len(h) |-> h[i].frame]

(* C4: the play log is append-only and frame-ordered: across update_frame  *)
(* and get_recent_plays calls the earlier log is an unchanged prefix of    *)
(* the later one, and the frames of consecutive entries never decrease.    *)
C4_LogAppendOnly ==
    /\ FrameOrdered(play_history)
    /\ [][IsPrefix(play_history, play_history')
          /\ FrameOrdered(play_history')]_vars

\* the log was queried and holds three plays of three different frames
C4_Witness ==
    /\ op = "get_recent_plays"
    /\ Len(play_history) = 3
    /\ play_history[1].frame < play_history[2].frame
    /\ play_history[2].frame < play_history[3].frame
    /\ frame_idx <= MaxPlayFrames

\* the plays of h at most w older than the last one and not newer than it:
\* (latest.frame - p.frame) / FPS <= w, with w = w.num / w.den
InWindow(h, w) ==
    SelectSeq(h, LAMBDA p : /\ (Last(h).frame - p.frame) * w.den <= FPS * w.num
                            /\ p.frame <= Last(h).frame)

LastCarry(history, k, n) ==
    \A i \in 1..Len(history) : i > Len(history) - k => history[i][2] = n

\* the number of well-formed detections of dets that P holds of
Count(dets, P(_)) == Len(SelectSeq(dets, P))

PlayerDetsOf(dets, id) ==
    Count(dets, LAMBDA d : IsPlayerDet(d) /\ DetPlayerId(d) = id)

(* C6: the frame counter starts at 0 and each update_frame call adds 1 to  *)
(* it before any detection is processed: after n calls frame_idx = n, and  *)
(* every position sample and every play recorded during the n-th call      *)
(* carries frame index n.                                                  *)
C6_FrameCounter ==
    /\ frame_idx = Len(inputs)
    /\ [][inputs' # inputs =>
            /\ frame_idx' = frame_idx + 1
            /\ frame_idx' = Len(inputs')
            /\ \A i \in 1..Len(play_history') :
                  i > Len(play_history) => play_history'[i].frame = Len(inputs')
            /\ \A id \in DOMAIN players' :
                  LastCarry(players'[id].position_history,
                            PlayerDetsOf(Last(inputs'), id), Len(inputs'))
            /\ LastCarry(ball'.position_history,
                         Count(Last(inputs'), IsBallDet), Len(inputs'))]_vars

\* the fourth call recorded a play, the second of the log, and a sample
C6_Witness ==
    /\ op = "update_frame"
    /\ frame_idx = 4
    /\ Len(play_history) = 2
    /\ play_history[2].frame = 4
    /\ Last(players[1].position_history)[2] = 4
    /\ Len(ball.position_history) = 0

\* the i-th detection of the last frame was handled as a player detection
PlayerCall(i) ==
    /\ i \in 1..Len(detections)
    /\ i < Len(loop_states)
    /\ IsPlayerDet(detections[i])

\* the player's samples before the i-th detection of the last frame
HistoryBefore(i) ==
    player_of(loop_states[i].players,
              DetPlayerId(detections[i])).position_history

\* the player after the i-th detection of the last frame
PlayerAfter(i) == loop_states[i + 1].players[DetPlayerId(detections[i])]

\* the player's speed after the i-th detection is the distance from the
\* previous stored position over the difference of the frame indices
SpeedFromPrevious(i) ==
    /\ PlayerAfter(i).current_speed
          = [sqrt |-> Dist2(Center(detections[i].bbox), Last(HistoryBefore(i))[1]),
             dt   |-> frame_idx - Last(HistoryBefore(i))[2]]
    /\ PlayerAfter(i).current_speed.sqrt >= 0
    /\ PlayerAfter(i).current_speed.dt > 0
    /\ PlayerAfter(i).speed_history # <<>>
    /\ Last(PlayerAfter(i).speed_history) = PlayerAfter(i).current_speed

(* C8: after any PlayerState.update_position call whose previous stored    *)
(* sample has a strictly smaller frame index, current_speed is             *)
(* non-negative, equals the Euclidean distance between the new position    *)
(* and the previous stored position divided by the difference of their     *)
(* frame indices, and is the newest entry of speed_history.                *)
C8_SpeedFromLastSample ==
    \A i \in 1..Len(detections) :
       (/\ PlayerCall(i)
        /\ HistoryBefore(i) # <<>>
        /\ Last(HistoryBefore(i))[2] < frame_idx)
       => SpeedFromPrevious(i)

\* a player seen in frames 1 and 3 only, 3 units apart: speed 3 / 2
C8_Witness ==
    /\ frame_idx = 3
    /\ \E i \in 1..Len(detections) :
          /\ PlayerCall(i)
          /\ HistoryBefore(i) # <<>>
          /\ Last(HistoryBefore(i))[2] = 1
          /\ PlayerAfter(i).current_speed = [sqrt |-> 9, dt |-> 2]
          /\ Last(PlayerAfter(i).speed_history) = [sqrt |-> 9, dt |-> 2]

\* C8 as stated: some earlier sample, not necessarily the previous stored one,
\* has a strictly smaller frame index
C8_SpeedAfterAnyEarlierSample ==
    \A i \in 1..Len(detections) :
       (/\ PlayerCall(i)
        /\ \E k \in 1..Len(HistoryBefore(i)) : HistoryBefore(i)[k][2] < frame_idx)
       => SpeedFromPrevious(i)

\* the i-th detection of the last frame was handled as a ball detection
BallCall(i) ==
    /\ i \in 1..Len(detections)
    /\ i < Len(loop_states)
    /\ IsBallDet(detections[i])

\* squared displacement of the i-th detection from the previous ball sample
Displacement2(i) ==
    Dist2(Center(detections[i].bbox),
          Last(loop_states[i].ball.position_history)[1])

(* C10: when BallState.update_position is called with at least one earlier *)
(* ball sample and the displacement from the previous sample is at most    *)
(* 5.0 (5.0 included), then right after the call in_air is false,          *)
(* holder_id is None and shot_arc is empty; when the displacement is       *)
(* greater than 5.0, in_air is true after the call.                        *)
C10_BallAtRest ==
    \A i \in 1..Len(detections) :
       (BallCall(i) /\ loop_states[i].ball.position_history # <<>>) =>
          IF Displacement2(i) <= IN_AIR_DISTANCE * IN_AIR_DISTANCE
          THEN /\ ~loop_states[i + 1].ball.in_air
               /\ loop_states[i + 1].ball.holder_id = None
               /\ loop_states[i + 1].ball.shot_arc = <<>>
          ELSE loop_states[i + 1].ball.in_air

\* a held ball moved by exactly 5.0: the holder was cleared
C10_Witness ==
    \E i \in 1..Len(detections) :
       /\ BallCall(i)
       /\ loop_states[i].ball.position_history # <<>>
       /\ Displacement2(i) = IN_AIR_DISTANCE * IN_AIR_DISTANCE
       /\ loop_states[i].ball.holder_id # None
       /\ loop_states[i + 1].ball.holder_id = None
       /\ ~loop_states[i + 1].ball.in_air

\* the samples a frame's detections selected by Sel give, in order
FrameSamples(dets, f, Sel(_)) ==
    [i \in 1..Len(SelectSeq(dets, Sel)) |->
        <<Center(SelectSeq(dets, Sel)[i].bbox), f>>]

\* all samples of player id in the first n frames, oldest first
RECURSIVE PlayerSamples(_, _)
PlayerSamples(n, id) ==
    IF n = 0 THEN <<>>
    ELSE PlayerSamples(n - 1, id)
            \o FrameSamples(inputs[n], n,
                            LAMBDA d : IsPlayerDet(d) /\ DetPlayerId(d) = id)

\* all samples of the ball in the first n frames, oldest first
RECURSIVE BallSamples(_)
BallSamples(n) ==
    IF n = 0 THEN <<>>
    ELSE BallSamples(n - 1) \o FrameSamples(inputs[n], n, IsBallDet)

\* the speeds of the first n samples: one for each sample that follows a
\* sample of an earlier frame
RECURSIVE Speeds(_, _)
Speeds(samples, n) ==
    IF n < 2 THEN <<>>
    ELSE Speeds(samples, n - 1)
            \o (IF samples[n][2] > samples[n - 1][2]
                THEN <<[sqrt |-> Dist2(samples[n][1], samples[n - 1][1]),
                        dt   |-> samples[n][2] - samples[n - 1][2]]>>
                ELSE <<>>)

\* the last min(Len(s), capacity) entries of s
MostRecent(s, capacity) ==
    SubSeq(s, (IF Len(s) > capacity THEN Len(s) - capacity ELSE 0) + 1, Len(s))

PlayerRing(p, samples) ==
    /\ Len(p.position_history) <= 30
    /\ Len(p.speed_history) <= 10
    /\ p.position_history = MostRecent(samples, 30)
    /\ p.speed_history = MostRecent(Speeds(samples, Len(samples)), 10)

(* C7: every player's position_history has at most 30 entries, every       *)
(* player's speed_history at most 10 and the ball's position_history at    *)
(* most 30; an append at capacity removes the oldest entry and keeps the   *)
(* others in insertion order, so each history is the most recent           *)
(* min(n, capacity) of the n samples appended to it.                       *)
C7_RingBuffers ==
    /\ \A id \in DOMAIN players :
          PlayerRing(players[id], PlayerSamples(frame_idx, id))
    /\ Len(ball.position_history) <= 30
    /\ ball.position_history = MostRecent(BallSamples(frame_idx), 30)

\* more than 30 samples of player 1 and of the ball and more than 10 speeds
\* were appended; the three histories are at capacity
C7_Witness ==
    /\ Len(PlayerSamples(frame_idx, 1)) > 31
    /\ Len(BallSamples(frame_idx)) > 30
    /\ Len(players[1].position_history) = 30
    /\ Len(players[1].speed_history) = 10
    /\ Len(ball.position_history) = 30
    /\ players[1].position_history[1] # PlayerSamples(frame_idx, 1)[1]
    /\ ball.position_history[1] = BallSamples(frame_idx)[Len(BallSamples(frame_idx)) - 29]

\* the vertical changes between the consecutive samples of a history
Deltas(history) ==
    [i \in 1..(Len(history) - 1) |-> history[i + 1][1][2] - history[i][1][2]]

\* D is j still deltas, k >= 1 upward deltas of 3, then the deltas of rest
JumpCycle(D, j, k, rest) ==
    /\ Len(D) = j + k + Len(rest)
    /\ \A i \in 1..j : D[i] = 0
    /\ \A i \in (j + 1)..(j + k) : D[i] = -3
    /\ \A i \in 1..Len(rest) : D[j + k + i] = rest[i]

JumpCycleOf(p, D) ==
    \A j \in 0..Len(D) : \A k \in 1..Len(D) :
       /\ JumpCycle(D, j, k, <<>>) =>
             p.jump_state = "ascending" /\ p.jump_height = 3 * (k - 1)
       /\ JumpCycle(D, j, k, <<0>>) =>
             p.jump_state = "peak" /\ p.jump_height = 3 * (k - 1)
       /\ JumpCycle(D, j, k, <<0, 3>>) => p.jump_state = "descending"
       /\ JumpCycle(D, j, k, <<0, 3, 0>>) =>
             p.jump_state = "grounded" /\ p.jump_height = 0

(* C9: a grounded player whose next k samples each lie 3 units above the   *)
(* previous one (dy = -3) is ascending with jump_height = 3 * (k - 1), the *)
(* first of these deltas only entering ascending with height 0 (12 after 5 *)
(* of them); a following still frame (|dy| < 1) gives peak with the same   *)
(* jump_height; a following downward delta of 3 gives descending; a        *)
(* following still frame gives grounded with jump_height = 0.              *)
C9_JumpCycle ==
    \A id \in DOMAIN players :
       JumpCycleOf(players[id], Deltas(players[id].position_history))

\* five upward deltas, a still frame, a downward delta and a still frame
C9_Witness ==
    /\ 1 \in DOMAIN players
    /\ Deltas(players[1].position_history) = <<-3, -3, -3, -3, -3, 0, 3, 0>>
    /\ players[1].jump_state = "grounded"
    /\ players[1].jump_height = 0

(* C11: shot_arc is empty in every state where in_air is false, after any  *)
(* sequence of frames and between the detections of a frame: whichever     *)
(* operation makes in_air false also leaves shot_arc empty.                *)
C11_ArcEmptyWhenNotInAir ==
    /\ ~ball.in_air => ball.shot_arc = <<>>
    /\ \A i \in 1..Len(loop_states) :
          ~loop_states[i].ball.in_air => loop_states[i].ball.shot_arc = <<>>

\* the last update_frame call had no ball detection
NoBallDetected == \A i \in 1..Len(detections) : ~IsBallDet(detections[i])

(* C12: at the end of any update_frame call whose detections contain no    *)
(* ball detection and after which holder_id is None, ball.in_air is true;  *)
(* if no ball was detected but a holder is recorded, in_air is as the      *)
(* detections of the frame left it.                                        *)
C12_EndOfFrameRule ==
    (inputs # <<>> /\ ~raised /\ NoBallDetected) =>
       /\ ball.holder_id = None => ball.in_air
       /\ ball.holder_id # None =>
             ball.in_air = loop_states[Len(loop_states)].ball.in_air

\* a frame with a player and no ball: the ball was at rest after the loop,
\* no holder is recorded, and the call left it in the air
C12_Witness ==
    /\ detections # <<>>
    /\ ~raised
    /\ NoBallDetected
    /\ ball.holder_id = None
    /\ ~loop_states[Len(loop_states)].ball.in_air
    /\ ball.in_air

\* the i-th detection of the last frame was a player detection that carries
\* possession evidence
PossessionCall(i) == PlayerCall(i) /\ "ball_bbox" \in DOMAIN detections[i]

\* player id holds the ball b
Held(b, ps, id) ==
    /\ id \in DOMAIN ps
    /\ ps[id].has_ball
    /\ b.holder_id = Some(id)
    /\ ~b.in_air

\* after the i-th detection of the last frame came no ball detection and no
\* player detection with possession evidence
Undisturbed(i) ==
    \A j \in (i + 1)..Len(detections) :
       /\ ~IsBallDet(detections[j])
       /\ ~(IsPlayerDet(detections[j]) /\ "ball_bbox" \in DOMAIN detections[j])

(* C14: immediately after update_frame processes a player detection that   *)
(* carries possession evidence, that player's has_ball is true,            *)
(* ball.holder_id is that player's identifier and ball.in_air is false;    *)
(* the three facts still hold at the end of the frame when no ball         *)
(* detection and no other possession-carrying player detection is          *)
(* processed after it in the same frame.                                   *)
C14_PossessionTaken ==
    \A i \in 1..Len(detections) :
       PossessionCall(i) =>
          /\ Held(loop_states[i + 1].ball, loop_states[i + 1].players,
                  DetPlayerId(detections[i]))
          /\ (Undisturbed(i) /\ ~raised) =>
                Held(ball, players, DetPlayerId(detections[i]))

\* the ball was in the air when a player took it; another player was seen
\* later in the frame, and the first still holds the ball at its end
C14_Witness ==
    \E i \in 1..Len(detections) :
       /\ PossessionCall(i)
       /\ loop_states[i].ball.in_air
       /\ i < Len(detections)
       /\ Undisturbed(i)
       /\ Held(ball, players, DetPlayerId(detections[i]))

\* a detection update_frame ignores: its class is neither player nor ball
Ignored(det) ==
    /\ "class_name" \in DOMAIN det
    /\ det.class_name \notin {"player", "ball"}

AllIgnored(dets) == \A i \in 1..Len(dets) : Ignored(dets[i])

(* C13: update_frame called with an empty detection list, or with          *)
(* detections whose class is neither player nor ball, advances frame_idx   *)
(* by 1 and leaves unchanged the players and all their fields, the ball's  *)
(* position_history, current_position, shot_arc and holder_id and the play *)
(* log; it changes at most ball.in_air, which becomes true when no holder  *)
(* is recorded.                                                            *)
C13_IgnoredFrame ==
    [][(inputs' # inputs /\ AllIgnored(Last(inputs'))) =>
          /\ ~raised'
          /\ frame_idx' = frame_idx + 1
          /\ players' = players
          /\ play_history' = play_history
          /\ ball' = [ball EXCEPT
                        !.in_air = IF ball.holder_id = None THEN TRUE ELSE @]]_vars

\* a frame with a detection of another class only, processed while two
\* players are known and the ball is in the air on an arc of more than 5
\* points with an upward delta: no play was appended for it
C13_Witness ==
    /\ detections # <<>>
    /\ AllIgnored(detections)
    /\ DOMAIN players = {1, 2}
    /\ ball.in_air
    /\ Len(ball.shot_arc) > 5
    /\ \E i \in 1..(Len(ball.shot_arc) - 1) :
          ball.shot_arc[i + 1][2] - ball.shot_arc[i][2] < -5
    /\ play_history # <<>>
    /\ \A i \in 1..Len(play_history) : play_history[i].frame < frame_idx

\* the plays recorded by the last update_frame call
FramePlays == SelectSeq(play_history, LAMBDA p : p.frame = frame_idx)

\* the plays of the given types among those of the last update_frame call
FramePlaysOf(types) == SelectSeq(FramePlays, LAMBDA p : p.play_type \in types)

\* the identifiers of the player detections of the last update_frame call
Detected ==
    {DetPlayerId(detections[i]) :
        i \in {j \in 1..Len(detections) : IsPlayerDet(detections[j])}}

\* the players of the last frame other than the holder
Defenders == {id \in Detected : Some(id) # ball.holder_id}

UpwardDelta(arc) == \E i \in 1..(Len(arc) - 1) : arc[i + 1][2] - arc[i][2] < -5

Blocked ==
    /\ ball.in_air
    /\ Len(ball.shot_arc) > 5
    /\ UpwardDelta(ball.shot_arc)
    /\ Defenders # {}

\* squared distance of a player's most recent position to the ball
ToBall(id) == Dist2(Last(players[id].position_history)[1], ball.current_position)

(* C18: at most one block play is appended per frame, and one is appended  *)
(* if and only if ball.in_air is true, shot_arc has more than 5 points,    *)
(* some consecutive pair of arc points has a vertical delta < -5 and some  *)
(* player detected in this frame differs from holder_id; it is credited to *)
(* the player nearest to the ball's current position among those detected *)
(* in this frame other than the holder.  Without such a player nothing is  *)
(* appended and no error is raised.                                        *)
C18_BlockRule ==
    inputs # <<>> =>
       /\ ~raised
       /\ Len(FramePlaysOf({"block"})) = IF Blocked THEN 1 ELSE 0
       /\ \A i \in 1..Len(FramePlaysOf({"block"})) :
             /\ FramePlaysOf({"block"})[i].player_id \in Defenders
             /\ \A id \in Defenders :
                   ToBall(FramePlaysOf({"block"})[i].player_id) <= ToBall(id)

\* the holder and another player were detected while the ball was in the air
\* on a blocked arc; the holder is nearer to the ball, the block went to the
\* other player
C18_Witness ==
    /\ Blocked
    /\ Detected = {1, 2}
    /\ ball.holder_id = Some(1)
    /\ ToBall(1) < ToBall(2)
    /\ Len(FramePlaysOf({"block"})) = 1
    /\ FramePlaysOf({"block"})[1].player_id = 2

\* the identifiers of the player detections of dets
DetectedIn(dets) ==
    {DetPlayerId(dets[i]) : i \in {j \in 1..Len(dets) : IsPlayerDet(dets[j])}}

\* the plays of the given types credited to player id among plays
PlaysOf(plays, types, id) ==
    SelectSeq(plays, LAMBDA p : p.play_type \in types /\ p.player_id = id)

\* the plays of the given types among plays
PlaysOfType(plays, types) == SelectSeq(plays, LAMBDA p : p.play_type \in types)

\* the plays of log that were not yet in old
After(old, log) == SubSeq(log, Len(old) + 1, Len(log))

Dunking(p) ==
    /\ p.has_ball
    /\ p.jump_state = "peak"
    /\ 2 * p.jump_height >= 3

\* plays were appended by a call numbered f that detected the players ids and
\* left the players as ps: the dunks among them are as the dunk rule says
DunkRule(plays, ps, ids, f) ==
    /\ \A id \in ids :
          Len(PlaysOf(plays, {"dunk"}, id)) = IF Dunking(ps[id]) THEN 1 ELSE 0
    /\ \A i \in 1..Len(PlaysOfType(plays, {"dunk"})) :
          /\ PlaysOfType(plays, {"dunk"})[i].player_id \in ids
          /\ PlaysOfType(plays, {"dunk"})[i].frame = f
          /\ PlaysOfType(plays, {"dunk"})[i].timestamp.num * 30
                = f * PlaysOfType(plays, {"dunk"})[i].timestamp.den
          /\ "jump_height" \in DOMAIN PlaysOfType(plays, {"dunk"})[i]
          /\ PlaysOfType(plays, {"dunk"})[i].jump_height
                = ps[PlaysOfType(plays, {"dunk"})[i].player_id].jump_height

(* C15: in each frame, for each distinct player detected in that frame,    *)
(* exactly one dunk play is appended if has_ball is true, jump_state is    *)
(* peak and jump_height >= 1.5 after the frame's state update, and no dunk *)
(* is appended for that player otherwise; the play has frame = frame_idx,  *)
(* timestamp = frame_idx / 30 and carries the player's jump_height.        *)
C15_DunkRule ==
    [][inputs' # inputs =>
          DunkRule(After(play_history, play_history'), players',
                   DetectedIn(Last(inputs')), frame_idx')]_vars

\* frame 42 recorded a dunk of player 1 with timestamp 1.4 = 7 / 5
C15_Witness ==
    /\ frame_idx = 42
    /\ play_history # <<>>
    /\ Last(play_history).play_type = "dunk"
    /\ Last(play_history).player_id = 1
    /\ Last(play_history).frame = 42
    /\ Last(play_history).timestamp.num * 5 = 7 * Last(play_history).timestamp.den
    /\ Last(play_history).jump_height = 3

Shooting(p) == p.has_ball /\ p.jump_state = "descending"

\* squared distance of the player's most recent position to (length / 2, 0)
HoopDistance2(p) ==
    Dist2(Last(p.position_history)[1], <<court_dimensions.length_ft \div 2, 0>>)

\* that distance is at least the configured three-point distance
BeyondLine(p) ==
    HoopDistance2(p) * court_dimensions.three_point_line_ft.den
                     * court_dimensions.three_point_line_ft.den
       >= court_dimensions.three_point_line_ft.num
             * court_dimensions.three_point_line_ft.num

PointerTypes == {"three_pointer", "two_pointer"}

PointerRule(plays, ps, ids) ==
    /\ \A id \in ids :
          /\ Len(PlaysOf(plays, {"three_pointer"}, id))
                = IF Shooting(ps[id]) /\ BeyondLine(ps[id]) THEN 1 ELSE 0
          /\ Len(PlaysOf(plays, {"two_pointer"}, id))
                = IF Shooting(ps[id]) /\ ~BeyondLine(ps[id]) THEN 1 ELSE 0
    /\ \A i \in 1..Len(PlaysOfType(plays, PointerTypes)) :
          /\ PlaysOfType(plays, PointerTypes)[i].player_id \in ids
          /\ "distance" \in DOMAIN PlaysOfType(plays, PointerTypes)[i]
          /\ PlaysOfType(plays, PointerTypes)[i].distance
                = [sqrt |-> HoopDistance2(ps[PlaysOfType(plays, PointerTypes)[i].player_id])]

(* C16: for each distinct player detected in the frame with has_ball true  *)
(* and jump_state descending exactly one play is appended: three_pointer   *)
(* if the distance from the player's most recent position to the hoop      *)
(* reference (court length / 2, 0) is >= the configured three-point        *)
(* distance (boundary included), otherwise two_pointer; the play carries   *)
(* that distance.  No pointer play is appended for a player that is not    *)
(* descending or is without has_ball.                                      *)
C16_PointerRule ==
    [][inputs' # inputs =>
          PointerRule(After(play_history, play_history'), players',
                      DetectedIn(Last(inputs')))]_vars

\* a shot from exactly the three-point distance of the court, 26: a
\* three_pointer carrying the distance 26
C16_Witness ==
    /\ court_dimensions.three_point_line_ft = Quot(26, 1)
    /\ play_history # <<>>
    /\ Last(play_history).frame = frame_idx
    /\ Last(play_history).play_type = "three_pointer"
    /\ Last(play_history).distance = [sqrt |-> 26 * 26]
    /\ Shooting(players[Last(play_history).player_id])

LayingUp(p) ==
    /\ p.has_ball
    /\ p.jump_state \in {"ascending", "peak"}
    /\ 2 * p.jump_height < 3
    /\ Len(p.position_history) > 5

LayupRule(plays, ps, ids) ==
    /\ \A id \in ids :
          Len(PlaysOf(plays, {"layup"}, id)) = IF LayingUp(ps[id]) THEN 1 ELSE 0
    /\ \A i \in 1..Len(PlaysOfType(plays, {"layup"})) :
          PlaysOfType(plays, {"layup"})[i].player_id \in ids

(* C17: for each distinct player detected in the frame, a layup play is    *)
(* appended if and only if has_ball is true, jump_state is ascending or    *)
(* peak, jump_height < 1.5 and the player's position_history holds more    *)
(* than 5 samples; a player with 5 or fewer samples never gets a layup.    *)
C17_LayupRule ==
    [][inputs' # inputs =>
          LayupRule(After(play_history, play_history'), players',
                    DetectedIn(Last(inputs')))]_vars

\* player 1 began to rise with the ball on its fifth sample, which recorded
\* nothing, and got a layup on its sixth
C17_Witness ==
    /\ Len(play_history) = 1
    /\ play_history[1].play_type = "layup"
    /\ play_history[1].player_id = 1
    /\ play_history[1].frame = frame_idx
    /\ Len(players[1].position_history) = 6
    /\ Deltas(players[1].position_history)[4] = -3

PlayerRuleTypes == {"dunk", "three_pointer", "two_pointer", "layup"}

\* plays i and j of the log were recorded for the same player by the same
\* update_frame call
SameCall(i, j) ==
    /\ play_history[i].frame = play_history[j].frame
    /\ play_history[i].player_id = play_history[j].player_id

\* one call recorded a layup and a pointer play for one player
LayupWithPointer ==
    \E i \in 1..Len(play_history) : \E j \in 1..Len(play_history) :
       /\ SameCall(i, j)
       /\ play_history[i].play_type = "layup"
       /\ play_history[j].play_type \in PointerTypes

PlayTypes == {"dunk", "three_pointer", "two_pointer", "layup", "block"}

WellFormedPlay(p) ==
    /\ p.confidence.num * 10 = 9 * p.confidence.den
    /\ p.confidence.num > 0
    /\ p.confidence.num <= p.confidence.den
    /\ p.timestamp.num * 30 = p.frame * p.timestamp.den
    /\ p.play_type \in PlayTypes
    /\ p.player_id \in DOMAIN players
    /\ "jump_height" \in DOMAIN p <=> p.play_type = "dunk"
    /\ "distance" \in DOMAIN p <=> p.play_type \in PointerTypes

(* C20: every play in the log has confidence 0.9, timestamp equal to its   *)
(* frame divided by 30, a play_type in {dunk, three_pointer, two_pointer,  *)
(* layup, block}, a player_id that is a key of the players map, a          *)
(* jump_height field exactly when it is a dunk and a distance field        *)
(* exactly when it is a three_pointer or two_pointer.                      *)
C20_PlayRecords ==
    \A i \in 1..Len(play_history) : WellFormedPlay(play_history[i])

\* a log with a layup, a dunk and a pointer play
C20_Witness ==
    /\ Len(play_history) = 3
    /\ play_history[1].play_type = "layup"
    /\ play_history[2].play_type = "dunk"
    /\ play_history[3].play_type \in PointerTypes

\* the player of the i-th detection of the last frame, before it
PlayerBefore(i) ==
    player_of(loop_states[i].players, DetPlayerId(detections[i]))

\* the i-th detection of the last frame was a player detection and the
\* player had an earlier sample
Moved(i) == PlayerCall(i) /\ HistoryBefore(i) # <<>>

\* vertical change of the i-th detection from the player's previous sample
Dy(i) == Center(detections[i].bbox)[2] - Last(HistoryBefore(i))[1][2]

Magnitude(n) == IF n < 0 THEN -n ELSE n

JumpOf(p) == <<p.jump_state, p.jump_height>>

(* C21: on a position update with dy < -2 a player in grounded, peak or    *)
(* descending moves to ascending with jump_height set to 0, and a player   *)
(* already ascending stays ascending with jump_height increased by |dy|.   *)
C21_UpwardRule ==
    \A i \in 1..Len(detections) :
       (Moved(i) /\ Dy(i) < -2) =>
          JumpOf(PlayerAfter(i))
             = IF PlayerBefore(i).jump_state = "ascending"
               THEN <<"ascending", PlayerBefore(i).jump_height + Magnitude(Dy(i))>>
               ELSE <<"ascending", 0>>

\* a descending player with jump_height 3 moved up by 4: ascending, height 0
C21_Witness ==
    \E i \in 1..Len(detections) :
       /\ Moved(i)
       /\ Dy(i) = -4
       /\ JumpOf(PlayerBefore(i)) = <<"descending", 3>>
       /\ JumpOf(PlayerAfter(i)) = <<"ascending", 0>>

(* C22: on a position update with dy > 2 a player in ascending or peak     *)
(* moves to descending with jump_height unchanged, and a player in         *)
(* grounded or descending keeps jump_state and jump_height.                *)
C22_DownwardRule ==
    \A i \in 1..Len(detections) :
       (Moved(i) /\ Dy(i) > 2) =>
          JumpOf(PlayerAfter(i))
             = IF PlayerBefore(i).jump_state \in {"ascending", "peak"}
               THEN <<"descending", PlayerBefore(i).jump_height>>
               ELSE JumpOf(PlayerBefore(i))

\* a player at peak with jump_height 4 moved down by 3: descending, height 4
C22_Witness ==
    \E i \in 1..Len(detections) :
       /\ Moved(i)
       /\ Dy(i) = 3
       /\ JumpOf(PlayerBefore(i)) = <<"peak", 4>>
       /\ JumpOf(PlayerAfter(i)) = <<"descending", 4>>

(* C23: on a position update with |dy| < 1 an ascending player moves to    *)
(* peak with jump_height preserved, and a descending player moves to       *)
(* grounded with jump_height reset to 0.                                   *)
C23_StillRule ==
    \A i \in 1..Len(detections) :
       (Moved(i) /\ Magnitude(Dy(i)) < 1) =>
          /\ PlayerBefore(i).jump_state = "ascending" =>
                JumpOf(PlayerAfter(i)) = <<"peak", PlayerBefore(i).jump_height>>
          /\ PlayerBefore(i).jump_state = "descending" =>
                JumpOf(PlayerAfter(i)) = <<"grounded", 0>>

\* a descending player with jump_height 4 stood still: grounded, height 0
C23_Witness ==
    \E i \in 1..Len(detections) :
       /\ Moved(i)
       /\ Dy(i) = 0
       /\ JumpOf(PlayerBefore(i)) = <<"descending", 4>>
       /\ JumpOf(PlayerAfter(i)) = <<"grounded", 0>>

(* C24: a position update leaves jump_state and jump_height unchanged when *)
(* it is the player's first sample, when 1 <= |dy| <= 2 in any state, and  *)
(* when |dy| < 1 while the player is grounded or at peak.                  *)
C24_NoChangeRule ==
    \A i \in 1..Len(detections) :
       PlayerCall(i) =>
          /\ HistoryBefore(i) = <<>> =>
                JumpOf(PlayerAfter(i)) = JumpOf(PlayerBefore(i))
          /\ (/\ Moved(i)
              /\ \/ Magnitude(Dy(i)) \in 1..2
                 \/ /\ Magnitude(Dy(i)) < 1
                    /\ PlayerBefore(i).jump_state \in {"grounded", "peak"})
             => JumpOf(PlayerAfter(i)) = JumpOf(PlayerBefore(i))

\* an ascending player with jump_height 3 moved up by 2: nothing changed
C24_Witness ==
    \E i \in 1..Len(detections) :
       /\ Moved(i)
       /\ Dy(i) = -2
       /\ JumpOf(PlayerBefore(i)) = <<"ascending", 3>>
       /\ JumpOf(PlayerAfter(i)) = <<"ascending", 3>>

GroundedAtZero(ps) ==
    \A id \in DOMAIN ps :
       /\ ps[id].jump_state = "grounded" => ps[id].jump_height = 0
       /\ ps[id].jump_height >= 0

(* C25: in every reachable state, every player whose jump_state is         *)
(* grounded has jump_height = 0, and jump_height is never negative.        *)
C25_GroundedAtZero ==
    /\ GroundedAtZero(players)
    /\ \A i \in 1..Len(loop_states) : GroundedAtZero(loop_states[i].players)

\* a player back on the ground after a jump of height 4
C25_Witness ==
    /\ 1 \in DOMAIN players
    /\ Deltas(players[1].position_history) = <<-3, -4, 3, 0>>
    /\ loop_states[1].players[1].jump_height = 4
    /\ JumpOf(players[1]) = <<"grounded", 0>>

\* jump_state and jump_height of player p after a vertical change of dy
JumpRule(p, dy) ==
    IF dy < -2
    THEN IF p.jump_state = "ascending"
         THEN <<"ascending", p.jump_height + Magnitude(dy)>>
         ELSE <<"ascending", 0>>
    ELSE IF dy > 2
    THEN IF p.jump_state \in {"ascending", "peak"}
         THEN <<"descending", p.jump_height>>
         ELSE JumpOf(p)
    ELSE IF Magnitude(dy) < 1 /\ p.jump_state = "ascending"
    THEN <<"peak", p.jump_height>>
    ELSE IF Magnitude(dy) < 1 /\ p.jump_state = "descending"
    THEN <<"grounded", 0>>
    ELSE JumpOf(p)

\* the i-th detection of the last frame is of a player whose previous
\* sample was stored in the same frame
SameFrameCall(i) == Moved(i) /\ Last(HistoryBefore(i))[2] = frame_idx

(* C26: when PlayerState.update_position is called with a frame index      *)
(* equal to the previous stored sample's frame index, current_speed and    *)
(* speed_history are left unchanged and nothing is raised, while the       *)
(* position is still appended to position_history and the jump machine is  *)
(* still stepped.                                                          *)
C26_SameFrameUpdate ==
    \A i \in 1..Len(detections) :
       SameFrameCall(i) =>
          /\ ~raised
          /\ PlayerAfter(i).current_speed = PlayerBefore(i).current_speed
          /\ PlayerAfter(i).speed_history = PlayerBefore(i).speed_history
          /\ PlayerAfter(i).position_history
                = DequeAppend(HistoryBefore(i),
                              <<Center(detections[i].bbox), frame_idx>>,
                              POSITION_MAXLEN)
          /\ JumpOf(PlayerAfter(i)) = JumpRule(PlayerBefore(i), Dy(i))

\* a player seen twice in the second frame: the second detection, 3 lower,
\* keeps the speed of the first and turns the ascent into a descent
C26_Witness ==
    \E i \in 1..Len(detections) :
       /\ SameFrameCall(i)
       /\ Dy(i) = 3
       /\ PlayerBefore(i).current_speed = [sqrt |-> 9, dt |-> 1]
       /\ PlayerAfter(i).current_speed = [sqrt |-> 9, dt |-> 1]
       /\ Len(PlayerAfter(i).speed_history) = 1
       /\ Len(PlayerAfter(i).position_history) = 3
       /\ JumpOf(PlayerBefore(i)) = <<"ascending", 0>>
       /\ JumpOf(PlayerAfter(i)) = <<"descending", 0>>

\* the ball before and after the i-th detection of the last frame
BallBefore(i) == loop_states[i].ball

BallAfter(i) == loop_states[i + 1].ball

(* C27: on a ball update with an earlier sample, a displacement above 5.0  *)
(* with an empty shot_arc makes shot_arc exactly [previous position,       *)
(* current position]; above 5.0 with a non-empty shot_arc the current      *)
(* position is appended and the earlier elements are unchanged; otherwise  *)
(* shot_arc becomes empty. The first ball sample ever leaves shot_arc and  *)
(* in_air unchanged.                                                       *)
C27_ShotArc ==
    \A i \in 1..Len(detections) :
       BallCall(i) =>
          IF BallBefore(i).position_history = <<>>
          THEN /\ BallAfter(i).shot_arc = BallBefore(i).shot_arc
               /\ BallAfter(i).in_air = BallBefore(i).in_air
          ELSE BallAfter(i).shot_arc
                  = IF Displacement2(i) > 5 * 5 /\ BallBefore(i).shot_arc = <<>>
                    THEN <<Last(BallBefore(i).position_history)[1],
                           Center(detections[i].bbox)>>
                    ELSE IF Displacement2(i) > 5 * 5
                    THEN Append(BallBefore(i).shot_arc,
                                Center(detections[i].bbox))
                    ELSE <<>>

\* the ball went from (47,0) to (47,11), which seeded the arc, and back
C27_Witness ==
    \E i \in 1..Len(detections) :
       /\ BallCall(i)
       /\ BallBefore(i).shot_arc = << <<47, 0>>, <<47, 11>> >>
       /\ BallAfter(i).shot_arc = << <<47, 0>>, <<47, 11>>, <<47, 0>> >>

NotPlayerDet(det) == ~IsPlayerDet(det)

\* the detections of a frame, the player detections first, each group in
\* list order
PlayersFirst(dets) ==
    SelectSeq(dets, IsPlayerDet) \o SelectSeq(dets, NotPlayerDet)

\* what is left of the ball and of the plays when a call has given r
BallOutcome(r) ==
    [holder_id |-> r.ball.holder_id, in_air |-> r.ball.in_air,
     shot_arc |-> r.ball.shot_arc, play_history |-> r.play_history]

(* C28: the state after update_frame is the same as if all player          *)
(* detections of the frame were processed first and all ball detections    *)
(* afterwards, each in list order: holder_id, in_air, shot_arc and the     *)
(* recorded plays do not depend on whether a ball detection comes before   *)
(* or after a possession-carrying player detection.                        *)
C28_OrderIndependent ==
    [][inputs' # inputs =>
          BallOutcome([ball |-> ball', play_history |-> play_history'])
             = BallOutcome(update_frame(Detector, PlayersFirst(Last(inputs'))))]_vars

\* every play of plays is credited to one of ids, and no two of them have
\* the same player and type
CreditedOnce(plays, ids) ==
    \A i \in 1..Len(plays) :
       /\ plays[i].player_id \in ids
       /\ \A j \in 1..Len(plays) :
             (/\ plays[j].player_id = plays[i].player_id
              /\ plays[j].play_type = plays[i].play_type) => i = j

(* C29: every play appended during an update_frame call (dunk, pointer,    *)
(* layup or block) is credited to a player that had at least one player    *)
(* detection in that same frame, and each distinct player identifier is    *)
(* evaluated once per frame however many detections it had.                *)
C29_CreditDetected == CreditedOnce(FramePlays, Detected)

\* player 1, detected three times in the frame, got one two_pointer
C29_Witness ==
    /\ Len(detections) = 3
    /\ Detected = {1}
    /\ Len(FramePlays) = 1
    /\ FramePlays[1].play_type = "two_pointer"
    /\ FramePlays[1].player_id = 1

\* the identifiers of the player detections of all calls so far
RECURSIVE DetectedInAll(_)
DetectedInAll(frames) ==
    IF frames = <<>> THEN {}
    ELSE DetectedInAll(SubSeq(frames, 1, Len(frames) - 1))
            \cup DetectedIn(Last(frames))

\* the players ps are still there in qs, each with its samples
Kept(ps, qs) ==
    \A id \in DOMAIN ps :
       /\ id \in DOMAIN qs
       /\ qs[id].player_id = id
       /\ IsPrefix(ps[id].position_history, qs[id].position_history)

(* C30: a PlayerState is created exactly when a player detection with a    *)
(* not-yet-seen identifier (track_id, or bbox x1 without track_id) is      *)
(* processed, and is never removed or replaced: the key set of the players *)
(* map only grows and equals the set of identifiers of all player          *)
(* detections processed so far.                                            *)
C30_PlayersMap ==
    /\ DOMAIN players = DetectedInAll(inputs)
    /\ \A i \in 1..(Len(loop_states) - 1) :
          /\ DOMAIN loop_states[i + 1].players
                = DOMAIN loop_states[i].players
                     \cup (IF IsPlayerDet(detections[i])
                           THEN {DetPlayerId(detections[i])} ELSE {})
          /\ Kept(loop_states[i].players, loop_states[i + 1].players)
    /\ loop_states # <<>> => Kept(loop_states[1].players, players)

\* player 1 was seen in two frames and kept its first sample; player 2 was
\* created in the last frame from a detection without track_id, whose box
\* starts at x1 = 2
C30_Witness ==
    /\ DOMAIN players = {1, 2}
    /\ Len(inputs) = 2
    /\ DOMAIN loop_states[1].players = {1}
    /\ Len(players[1].position_history) = 2
    /\ players[1].position_history[1][2] = 1
    /\ \E i \in 1..Len(detections) :
          /\ IsPlayerDet(detections[i])
          /\ "track_id" \notin DOMAIN detections[i]
          /\ detections[i].bbox[1] = 2
          /\ 2 \notin DOMAIN loop_states[i].players
          /\ 2 \in DOMAIN loop_states[i + 1].players

(* C31: shot_arc stays bounded over a long session: after any number of    *)
(* frames its length never exceeds the ball position-history capacity of   *)
(* 30.                                                                     *)
C31_ShotArcBounded == Len(ball.shot_arc) <= 30

ArcShape(b) ==
    /\ Len(b.shot_arc) # 1
    /\ b.shot_arc # <<>> => Last(b.shot_arc) = b.current_position

(* C39: in every reachable state shot_arc has length 0 or at least 2,      *)
(* never exactly 1, and whenever it is non-empty its last element equals   *)
(* ball.current_position.                                                  *)
C39_ArcShape ==
    /\ ArcShape(ball)
    /\ \A i \in 1..Len(loop_states) : ArcShape(loop_states[i].ball)

\* an arc was seeded by the second ball detection of a frame
C39_Witness ==
    /\ Len(detections) = 2
    /\ Len(loop_states) = 3
    /\ loop_states[2].ball.shot_arc = <<>>
    /\ ball.shot_arc = << <<47, 5>>, <<47, 11>> >>
    /\ ball.current_position = <<47, 11>>

HolderKnown(ps, b) ==
    b.holder_id # None =>
       /\ b.holder_id[1] \in DOMAIN ps
       /\ ps[b.holder_id[1]].has_ball

(* C32: in every reachable state, if ball.holder_id is not None then it is *)
(* a key of the players map and that player's has_ball is true.            *)
C32_HolderHasBall ==
    /\ HolderKnown(players, ball)
    /\ \A i \in 1..Len(loop_states) :
          HolderKnown(loop_states[i].players, loop_states[i].ball)

\* player 1 took the ball in an earlier frame and was detected without
\* possession evidence in the last one: still the holder, has_ball still true
C32_Witness ==
    /\ Len(inputs) > 1
    /\ detections = <<PlayerDet(1, <<47, 3>>)>>
    /\ ball.holder_id = Some(1)
    /\ players[1].has_ball

HavingBall(ps) == {id \in DOMAIN ps : ps[id].has_ball}

(* C33: in every reachable state at most one player has has_ball = true.   *)
C33_OneHasBall == Cardinality(HavingBall(players)) <= 1

\* the changes of jump_state: <<from, to>>
JumpChanges ==
    {<<from, "ascending">> : from \in {"grounded", "peak", "descending"}}
       \cup {<<"ascending", "peak">>, <<"ascending", "descending">>,
             <<"peak", "descending">>, <<"descending", "grounded">>}

(* C34: the only jump_state changes that ever occur are: any other state   *)
(* to ascending, ascending to peak, ascending or peak to descending, and   *)
(* descending to grounded; peak is entered only from ascending and         *)
(* grounded only from descending.                                          *)
C34_JumpChanges ==
    \A i \in 1..Len(detections) :
       (PlayerCall(i)
          /\ PlayerAfter(i).jump_state # PlayerBefore(i).jump_state)
       => <<PlayerBefore(i).jump_state, PlayerAfter(i).jump_state>> \in JumpChanges

\* up, down, up: from ascending to descending without passing peak, and
\* from descending back to ascending without passing grounded
C34_Witness ==
    /\ 1 \in DOMAIN players
    /\ Deltas(players[1].position_history) = <<-3, 3, -3>>
    /\ loop_states[1].players[1].jump_state = "descending"
    /\ players[1].jump_state = "ascending"

\* the ball is in flight on an arc that satisfies the block rule
Blockable(b) ==
    /\ b.in_air
    /\ Len(b.shot_arc) > 5
    /\ UpwardDelta(b.shot_arc)

\* in_air was true on entry to the last call, after each of its detections
\* and at its end
StayedInAir ==
    /\ ball.in_air
    /\ \A i \in 1..Len(loop_states) : loop_states[i].ball.in_air

\* the last call appended exactly one block and kept the points of the arc
BlockedAgain ==
    /\ Len(FramePlaysOf({"block"})) = 1
    /\ IsPrefix(loop_states[1].ball.shot_arc, ball.shot_arc)

(* C35, as stated: shot_arc never loses points while in_air remains true,  *)
(* so once the arc has more than 5 points and an upward delta < -5, every  *)
(* subsequent frame in which in_air is still true and a non-holder player  *)
(* is detected appends another block play.                                 *)
C35_BlocksWhileInAir ==
    (/\ loop_states # <<>>
     /\ Blockable(loop_states[1].ball)
     /\ ball.in_air
     /\ Defenders # {}) => BlockedAgain

(* C35: shot_arc never loses points while in_air stays true from one       *)
(* detection to the next; once the arc has more than 5 points and an       *)
(* upward delta < -5, every subsequent frame during which in_air is true   *)
(* throughout (on entry, after each detection and at the end) and in which *)
(* a non-holder player is detected appends one block play, including       *)
(* frames in which the ball is not detected.                               *)
C35_BlocksPersist ==
    /\ \A i \in 1..(Len(loop_states) - 1) :
          (loop_states[i].ball.in_air /\ loop_states[i + 1].ball.in_air)
             => IsPrefix(loop_states[i].ball.shot_arc,
                         loop_states[i + 1].ball.shot_arc)
    /\ (/\ loop_states # <<>>
        /\ Blockable(loop_states[1].ball)
        /\ StayedInAir
        /\ Defenders # {}) => BlockedAgain

\* the second frame in a row in which only player 2 was detected and was
\* credited with a block
C35_Witness ==
    /\ Len(inputs) > 1
    /\ inputs[Len(inputs) - 1] = <<PlayerDet(2, <<44, 2>>)>>
    /\ detections = <<PlayerDet(2, <<44, 2>>)>>
    /\ Blockable(loop_states[1].ball)
    /\ StayedInAir
    /\ Len(FramePlaysOf({"block"})) = 1
    /\ Len(PlaysOfType(play_history, {"block"})) = 2

\* the frame indices of a position history, oldest first
SampleFrames(history) == [i \in 1..Len(history) |-> history[i][2]]

\* the samples of player p are in frame order, of frames 1..f, and the
\* stored speeds are not negative
SamplesInOrder(p, f) ==
    /\ \A i \in 1..(Len(p.position_history) - 1) :
          p.position_history[i][2] <= p.position_history[i + 1][2]
    /\ \A i \in 1..Len(p.position_history) : p.position_history[i][2] \in 1..f
    /\ \A i \in 1..Len(p.speed_history) :
          p.speed_history[i].sqrt >= 0 /\ p.speed_history[i].dt > 0

(* C36: for every player the frame indices stored in position_history are  *)
(* non-decreasing from oldest to newest, each lies between 1 and the        *)
(* current frame_idx, and a player detected in the frame just processed    *)
(* has frame_idx as the frame index of its newest sample; every entry of   *)
(* speed_history is >= 0.                                                  *)
C36_SamplesInOrder ==
    /\ \A id \in DOMAIN players : SamplesInOrder(players[id], frame_idx)
    /\ ~raised => \A id \in Detected :
                     Last(players[id].position_history)[2] = frame_idx

\* player 1 was seen once in frame 1 and twice in frame 2: two samples of
\* the same frame and one speed
C36_Witness ==
    /\ frame_idx = 2
    /\ Detected = {1}
    /\ SampleFrames(players[1].position_history) = <<1, 2, 2>>
    /\ Len(players[1].speed_history) = 1

\* r is the last plays of h, the most recent one included
RecentSuffix(r, h) ==
    \E k \in 1..Len(h) : r = SubSeq(h, k, Len(h))

(* C37: for any window w >= 0 and a non-empty log, get_recent_plays(w)     *)
(* returns a contiguous suffix of play_history in log order that contains  *)
(* the most recently appended play; for w < 0 it returns an empty list.    *)
C37_RecentSuffix ==
    (op = "get_recent_plays" /\ play_history # <<>>) =>
       IF window.num >= 0 THEN RecentSuffix(result, play_history)
       ELSE result = <<>>

\* the plays of h that carry the timestamp of its last play
LatestPlays(h) ==
    SelectSeq(h, LAMBDA p : p.frame = Last(h).frame)

\* w is negative and at least one float spacing long
WholeSpacing(w) == w.num < 0 /\ QuotGeq(Quot(-w.num, w.den), FloatSpacing)

(* C37, for floating-point windows: for any window w >= 0 and a non-empty  *)
(* log, get_recent_plays(w) returns a contiguous suffix of play_history in *)
(* log order that contains the most recently appended play; for w < 0 it   *)
(* returns an empty list when w is at least one float spacing long, and    *)
(* otherwise an empty list or the plays that carry the latest timestamp.   *)
C37_RecentSuffixOrLatest ==
    (op = "get_recent_plays" /\ play_history # <<>>) =>
       IF window.num >= 0 THEN RecentSuffix(result, play_history)
       ELSE /\ result \in {<<>>, LatestPlays(play_history)}
            /\ WholeSpacing(window) => result = <<>>

\* get_recent_plays with a negative window a quarter of the float spacing
\* long returned the last of four plays
C37_Witness ==
    /\ op = "get_recent_plays"
    /\ window = Quot(-1, 4 * FPS * FloatSteps)
    /\ Len(play_history) = 4
    /\ result = <<play_history[4]>>

\* jump_height is 0 or above 2, so the thresholds of the dunk and layup
\* rules (1.5) separate 0 from the rest
HeightGap(ps) ==
    \A id \in DOMAIN ps :
       /\ ps[id].jump_height = 0 \/ ps[id].jump_height > 2
       /\ 2 * ps[id].jump_height >= 3 <=> ps[id].jump_height > 0
       /\ 2 * ps[id].jump_height < 3 <=> ps[id].jump_height = 0

(* C40: in every reachable state a player's jump_height is either 0 or     *)
(* strictly greater than 2; the dunk condition jump_height >= 1.5 holds    *)
(* exactly when jump_height > 0 and the layup condition jump_height < 1.5  *)
(* exactly when jump_height = 0.                                           *)
C40_HeightGap ==
    /\ HeightGap(players)
    /\ \A i \in 1..Len(loop_states) : HeightGap(loop_states[i].players)

\* up 3, up 2, up 3: the move of 2 added nothing, the height is 3
C40_Witness ==
    /\ 1 \in DOMAIN players
    /\ Deltas(players[1].position_history) = <<-3, -2, -3>>
    /\ JumpOf(players[1]) = <<"ascending", 3>>

\* the update writes a final status
Final(status_updates) ==
    /\ "status" \in DOMAIN status_updates
    /\ status_updates.status \in {"completed", "error"}

\* the task of video_id made no update after one that wrote a final status
FinalIsLast(video_id) ==
    \A i \in 1..Len(tasks[video_id].updates) :
       Final(tasks[video_id].updates[i]) =>
          /\ i = Len(tasks[video_id].updates)
          /\ tasks[video_id].pc = "ended"

\* the job of video_id is completed with progress 100
JobCompleted(video_id) ==
    /\ video_id \in DOMAIN processing_status
    /\ processing_status[video_id].status = "completed"
    /\ processing_status[video_id].progress = 100

\* the job of video_id is in error
JobError(video_id) ==
    /\ video_id \in DOMAIN processing_status
    /\ processing_status[video_id].status = "error"

\* the pipeline of video_id returned an error result without an output file
ReturnedError(video_id) ==
    /\ tasks[video_id].outcome = "returned"
    /\ tasks[video_id].result[1].status = "error"
    /\ "output_file" \notin DOMAIN tasks[video_id].result[1]

\* C38: whenever process_video has returned, whatever the status of its
\* result, the job is "completed" with progress 100; a job is in "error" only
\* when the input file was missing or an exception was caught; and a task
\* makes no status update after the one that wrote "completed" or "error".
C38_JobStatus ==
    \A video_id \in VideoIds :
       /\ tasks[video_id].outcome = "returned" => JobCompleted(video_id)
       /\ JobError(video_id) =>
             tasks[video_id].outcome \in {"missing_file", "exception"}
       /\ FinalIsLast(video_id)

\* a job is completed with progress 100 and an empty output file after the
\* pipeline returned an error result, while another job is in error
C38_Witness ==
    \E video_id \in VideoIds, other \in VideoIds :
       /\ ReturnedError(video_id)
       /\ JobCompleted(video_id)
       /\ processing_status[video_id].result.output_file = ""
       /\ JobError(other)
       /\ tasks[other].outcome = "exception"
       /\ "progress" \in DOMAIN processing_status[other]

=============================================================================
